---- MODULE Spec2Model ----
(***************************************************************************)
(* A model of the AI backend generator (byteakp/Baclend_GEN): the Express  *)
(* handlers of the Groq server, the project store they keep on the local   *)
(* file system, and the extraction of a JSON project descriptor from the   *)
(* provider's text.                                                        *)
(*                                                                         *)
(* A path is a sequence of segments (the string split at "/"); a text is a *)
(* sequence of lines; a provider answer is a sequence of tokens.           *)
(***************************************************************************)
EXTENDS Integers, Sequences, FiniteSets, TLC

(***************************************************************************)
(* Paths (node's path module, POSIX).                                      *)
(***************************************************************************)

\* __dirname of the server, as an absolute path.
DIRNAME == <<"app">>

\* const PROJECTS_DIR = path.join(__dirname, 'generated_projects')
PROJECTS_DIR == DIRNAME \o <<"generated_projects">>

RECURSIVE normalizeFrom(_, _)
\* path.normalize of an absolute path: "" and "." segments are dropped and
\* ".." removes the segment before it (at the root it is dropped).
normalizeFrom(done, rest) ==
  IF rest = <<>> THEN done
  ELSE LET s == Head(rest)
       IN IF s = "" \/ s = "."
            THEN normalizeFrom(done, Tail(rest))
          ELSE IF s = ".."
            THEN normalizeFrom(IF done = <<>> THEN <<>> ELSE SubSeq(done, 1, Len(done) - 1),
                               Tail(rest))
          ELSE normalizeFrom(Append(done, s), Tail(rest))

\* path.join(base, rel) for an absolute base.
pathJoin(base, rel) == normalizeFrom(<<>>, base \o rel)

\* path.dirname of a normalized absolute path.
pathDirname(p) == IF p = <<>> THEN <<>> ELSE SubSeq(p, 1, Len(p) - 1)

\* `${p}${suffix}`: a suffix appended to the last segment of a path.
withSuffix(p, suffix) ==
  IF p = <<>> THEN <<suffix>>
  ELSE [p EXCEPT ![Len(p)] = p[Len(p)] \o suffix]

IsPrefix(p, q) == Len(p) <= Len(q) /\ SubSeq(q, 1, Len(p)) = p

(***************************************************************************)
(* The file system (fs.promises).  fs maps every existing path other than  *)
(* the root to its node.                                                   *)
(***************************************************************************)

NoJson == [absent |-> TRUE]

DirNode == [type |-> "dir", kind |-> "dir", text |-> <<>>, json |-> NoJson]

\* A regular file holding a text (a sequence of lines).
TextFile(t) == [type |-> "file", kind |-> "text", text |-> t, json |-> NoJson]

\* A regular file holding JSON.stringify(v).
JsonFile(v) == [type |-> "file", kind |-> "json", text |-> <<>>, json |-> v]

\* A zip archive of the files in v (path -> node).
ZipFile(v) == [type |-> "file", kind |-> "zip", text |-> <<>>, json |-> [entries |-> v]]

Exists(f, p) == p = <<>> \/ p \in DOMAIN f
IsDir(f, p) == p = <<>> \/ (p \in DOMAIN f /\ f[p].type = "dir")
IsFile(f, p) == p \in DOMAIN f /\ f[p].type = "file"

Prefixes(p) == {SubSeq(p, 1, n) : n \in 1..Len(p)}

\* fs.mkdir(p, {recursive: true}) succeeds unless a component is a regular file.
mkdirOk(f, p) == \A q \in Prefixes(p) : ~IsFile(f, q)

mkdir(f, p) ==
  [q \in DOMAIN f \cup Prefixes(p) |-> IF q \in DOMAIN f THEN f[q] ELSE DirNode]

\* fs.writeFile(p, data) succeeds when the parent is a directory and p is not one.
writeFileOk(f, p) == p # <<>> /\ IsDir(f, pathDirname(p)) /\ ~IsDir(f, p)

writeFile(f, p, node) ==
  [q \in DOMAIN f \cup {p} |-> IF q = p THEN node ELSE f[q]]

\* fs.readFile(p) succeeds on a regular file; fs.stat / fs.access on any node.
readFileOk(f, p) == IsFile(f, p)

\* A variant of rm that removes p alone, and nothing when p has children.
rmNotRecursive(f, p) ==
  IF \E x \in DOMAIN f : IsPrefix(p, x) /\ x # p THEN f
  ELSE [q \in {x \in DOMAIN f : x # p} |-> f[q]]

\* fs.rm(p, {recursive: true, force: true}) and fs.unlink(p).
rm(f, p) == [q \in {x \in DOMAIN f : ~IsPrefix(p, x)} |-> f[q]]

(***************************************************************************)
(* The provider's answer and ProjectGenerator.generateProjectStructure's   *)
(* extraction of a JSON value from it.  An answer is a sequence of tokens: *)
(*   FenceJson  a fence tagged json       Fence  a bare fence              *)
(*   WS         white space               "x"    prose                     *)
(*   "{" "}"    braces                    Quote  a double quote            *)
(*   "null"     the JSON literal null                                      *)
(*   "D1" ...   the members of a project descriptor's JSON object          *)
(***************************************************************************)

\* The token of a fence tagged json (three backticks and "json").
FenceJson == "FENCE_JSON"
\* The token of a bare fence (three backticks).
Fence == "FENCE"
WS == " "
Quote == "\""

\* String.prototype.includes: "```json" contains "```".
includesJsonFence(c) == \E i \in 1..Len(c) : c[i] = FenceJson
includesFence(c) == \E i \in 1..Len(c) : c[i] \in {Fence, FenceJson}

\* The least element of a non-empty set of integers.
Least(S) == CHOOSE i \in S : \A j \in S : i <= j
Greatest(S) == CHOOSE i \in S : \A j \in S : j <= i

\* The capture group of /<open>\s*([\s\S]*?)\s*```/ for the opening fence at i
\* and the next fence at j: the tokens between them without the leading
\* white space (the greedy \s*) and the trailing white space (the lazy group
\* stops at the first place where \s*``` matches).
captured(c, i, j) ==
  LET inner == {k \in (i + 1)..(j - 1) : c[k] # WS}
  IN IF inner = {} THEN <<>> ELSE SubSeq(c, Least(inner), Greatest(inner))

\* content.match(/```json\s*([\s\S]*?)\s*```/): the first "```json" that has a
\* fence after it (if the first has none, no later one has).
matchJsonFence(c) ==
  LET opens == {i \in 1..Len(c) : c[i] = FenceJson /\ \E j \in (i + 1)..Len(c) : c[j] \in {Fence, FenceJson}}
  IN IF opens = {} THEN [found |-> FALSE, group |-> <<>>]
     ELSE LET i == Least(opens)
              j == Least({k \in (i + 1)..Len(c) : c[k] \in {Fence, FenceJson}})
          IN [found |-> TRUE, group |-> captured(c, i, j)]

\* content.match(/```\s*([\s\S]*?)\s*```/), used when no "```json" occurs.
matchFence(c) ==
  LET opens == {i \in 1..Len(c) : c[i] \in {Fence, FenceJson} /\ \E j \in (i + 1)..Len(c) : c[j] \in {Fence, FenceJson}}
  IN IF opens = {} THEN [found |-> FALSE, group |-> <<>>]
     ELSE LET i == Least(opens)
              j == Least({k \in (i + 1)..Len(c) : c[k] \in {Fence, FenceJson}})
          IN [found |-> TRUE, group |-> captured(c, i, j)]

\* content.match(/\{[\s\S]*\}/): greedy, from the first "{" to the last "}".
matchBraces(c) ==
  LET opens == {i \in 1..Len(c) : c[i] = "{"}
      closes == {j \in 1..Len(c) : c[j] = "}"}
  IN IF opens = {} \/ closes = {} \/ Greatest(closes) < Least(opens)
       THEN [found |-> FALSE, group |-> <<>>]
     ELSE [found |-> TRUE, group |-> SubSeq(c, Least(opens), Greatest(closes))]

\* The text handed to JSON.parse (jsonContent).
jsonContent(c) ==
  IF includesJsonFence(c)
    THEN (IF matchJsonFence(c).found THEN matchJsonFence(c).group ELSE c)
  ELSE IF includesFence(c)
    THEN (IF matchFence(c).found THEN matchFence(c).group ELSE c)
  ELSE (IF matchBraces(c).found THEN matchBraces(c).group ELSE c)

\* The tokens that stand for the members of a descriptor's JSON object.
MemberTokens == {"D1", "D2", "D3", "D4", "D5"}

ParseFail == [ok |-> FALSE, val |-> [t |-> "null"], next |-> 0]

RECURSIVE parseValue(_, _)
RECURSIVE parseElements(_, _, _)
\* JSON.parse, one value starting at token i: null, a string (any tokens up to
\* the next quote) or an object (members, nested values and white space up to
\* the matching brace).  Prose and fences are JSON only inside a string.
parseValue(c, i) ==
  IF i > Len(c) THEN ParseFail
  ELSE IF c[i] = "null" THEN [ok |-> TRUE, val |-> [t |-> "null"], next |-> i + 1]
  ELSE IF c[i] = Quote
    THEN LET ends == {j \in (i + 1)..Len(c) : c[j] = Quote}
         IN IF ends = {} THEN ParseFail
            ELSE [ok |-> TRUE,
                  val |-> [t |-> "string", body |-> SubSeq(c, i + 1, Least(ends) - 1)],
                  next |-> Least(ends) + 1]
  ELSE IF c[i] = "{" THEN parseElements(c, i + 1, <<>>)
  ELSE ParseFail

parseElements(c, i, acc) ==
  IF i > Len(c) THEN ParseFail
  ELSE IF c[i] = "}" THEN [ok |-> TRUE, val |-> [t |-> "object", items |-> acc], next |-> i + 1]
  ELSE IF c[i] = WS THEN parseElements(c, i + 1, acc)
  ELSE IF c[i] \in MemberTokens
    THEN parseElements(c, i + 1, Append(acc, [t |-> "members", of |-> c[i]]))
  ELSE LET r == parseValue(c, i)
       IN IF r.ok THEN parseElements(c, r.next, Append(acc, r.val)) ELSE ParseFail

\* JSON.parse(text): one value with white space around it, or a SyntaxError.
JSONparse(c) ==
  LET solid == {k \in 1..Len(c) : c[k] # WS}
  IN IF solid = {} THEN ParseFail
     ELSE LET r == parseValue(c, Least(solid))
          IN IF r.ok /\ \A k \in r.next..Len(c) : c[k] = WS THEN r ELSE ParseFail

\* generateProjectStructure from the provider's content on: the parsed value,
\* or Error('Invalid JSON response from AI model').
extractJson(c) ==
  LET r == JSONparse(jsonContent(c))
  IN IF r.ok THEN [ok |-> TRUE, value |-> r.val]
     ELSE [ok |-> FALSE, value |-> [t |-> "null"]]

(***************************************************************************)
(* Project descriptors (projectData, the parsed answer).  fileTree is the  *)
(* sequence of Object.entries(fileTree); a key is the path split at "/",   *)
(* so "src/" is <<"src", "">>.  over holds the descriptor's own id,        *)
(* prompt, model keys, if any; lists tells whether setupInstructions and   *)
(* apiEndpoints are arrays.                                                *)
(***************************************************************************)

NoKeys == [k \in {} |-> ""]

DirEntry(p) == [path |-> p, type |-> "directory", hasContent |-> FALSE, content |-> <<"">>]
FileEntry(p, t) == [path |-> p, type |-> "file", hasContent |-> TRUE, content |-> t]
BareFileEntry(p) == [path |-> p, type |-> "file", hasContent |-> FALSE, content |-> <<"">>]

DescriptorOf(tok) ==
  CASE tok = "D1" -> [projectName |-> "thing", lists |-> TRUE, over |-> NoKeys,
                      fileTree |-> <<DirEntry(<<"src", "">>), FileEntry(<<"src", "app.js">>, <<"x">>)>>]
    [] tok = "D2" -> [projectName |-> "thing", lists |-> TRUE, over |-> NoKeys,
                      fileTree |-> <<FileEntry(<<"..", "evil.js">>, <<"x">>)>>]
    [] tok = "D3" -> [projectName |-> "thing", lists |-> TRUE, over |-> NoKeys,
                      fileTree |-> <<FileEntry(<<"README.md">>, <<"x">>), BareFileEntry(<<"empty.js">>)>>]
    [] tok = "D4" -> [projectName |-> "thing", lists |-> TRUE, over |-> [k \in {"id"} |-> "other"],
                      fileTree |-> <<FileEntry(<<"a.js">>, <<"x">>)>>]
    [] tok = "D5" -> [projectName |-> "thing", lists |-> FALSE, over |-> NoKeys,
                      fileTree |-> <<FileEntry(<<"a.js">>, <<"x">>)>>]

\* What the handler reads off the parsed value: "null" has no properties (a
\* TypeError on .fileTree), a string and an object without the descriptor's
\* members have no fileTree, an object takes its members from the last token.
projectDataOf(v) ==
  IF v.t = "null" THEN [shape |-> "null", token |-> ""]
  ELSE IF v.t = "string" THEN [shape |-> "bare", token |-> ""]
  ELSE LET ms == {k \in 1..Len(v.items) : v.items[k].t = "members"}
       IN IF ms = {} THEN [shape |-> "bare", token |-> ""]
          ELSE [shape |-> "descriptor", token |-> v.items[Greatest(ms)].of]

RECURSIVE createEntriesNoParents(_, _, _)
\* A variant of the loop that writes a file without making its parent
\* directories first.
createEntriesNoParents(f, projectPath, entries) ==
  IF entries = <<>> THEN [fs |-> f, ok |-> TRUE]
  ELSE LET e == Head(entries)
           fullPath == pathJoin(projectPath, e.path)
       IN IF e.type = "directory"
            THEN IF mkdirOk(f, fullPath)
                   THEN createEntriesNoParents(mkdir(f, fullPath), projectPath, Tail(entries))
                 ELSE [fs |-> f, ok |-> FALSE]
          ELSE IF e.type = "file"
            THEN IF ~writeFileOk(f, fullPath) THEN [fs |-> f, ok |-> FALSE]
                 ELSE createEntriesNoParents(
                        writeFile(f, fullPath,
                                  TextFile(IF e.hasContent THEN e.content ELSE <<"">>)),
                        projectPath, Tail(entries))
          ELSE createEntriesNoParents(f, projectPath, Tail(entries))

RECURSIVE createEntries(_, _, _)
\* The loop of FileSystemManager.createProjectFiles over the entries left:
\* [fs, ok]; a failing mkdir or writeFile throws and keeps what was written
\* before it.
createEntries(f, projectPath, entries) ==
  IF entries = <<>> THEN [fs |-> f, ok |-> TRUE]
  ELSE LET e == Head(entries)
           fullPath == pathJoin(projectPath, e.path)
       IN IF e.type = "directory"
            THEN IF mkdirOk(f, fullPath)
                   THEN createEntries(mkdir(f, fullPath), projectPath, Tail(entries))
                 ELSE [fs |-> f, ok |-> FALSE]
          ELSE IF e.type = "file"
            THEN LET dirPath == pathDirname(fullPath)
                 IN IF ~mkdirOk(f, dirPath) THEN [fs |-> f, ok |-> FALSE]
                    ELSE IF ~writeFileOk(mkdir(f, dirPath), fullPath)
                      THEN [fs |-> mkdir(f, dirPath), ok |-> FALSE]
                    ELSE createEntries(
                           writeFile(mkdir(f, dirPath), fullPath,
                                     TextFile(IF e.hasContent THEN e.content ELSE <<"">>)),
                           projectPath, Tail(entries))
          ELSE createEntries(f, projectPath, Tail(entries))

\* FileSystemManager.createProjectFiles(projectId, fileTree).
createProjectFiles(f, projectId, fileTree) ==
  LET projectPath == pathJoin(PROJECTS_DIR, <<projectId>>)
  IN IF ~mkdirOk(f, projectPath) THEN [fs |-> f, ok |-> FALSE]
     ELSE createEntries(mkdir(f, projectPath), projectPath, fileTree)

\* The metadata object { id: projectId, prompt, model, generated, ...projectData }:
\* the descriptor's keys are spread last.
metadataOf(projectId, prompt, model, generated, tok) ==
  LET d == DescriptorOf(tok)
      own == [id |-> projectId, prompt |-> prompt, model |-> model]
  IN [k \in DOMAIN own |-> IF k \in DOMAIN d.over THEN d.over[k] ELSE own[k]]
       @@ [generated |-> generated, projectName |-> d.projectName, descriptor |-> tok]

\* The README.md the generate handler writes from its template.
readmeContent(tok) == <<"# " \o DescriptorOf(tok).projectName, "Generated by AI Backend Generator">>

(***************************************************************************)
(* File texts and the answers to enhance and rewrite: sequences of lines.  *)
(* The empty string is <<"">>; a line of white space is "".                *)
(***************************************************************************)

\* String.prototype.trim, to the line: the blank lines at both ends go.
trim(t) ==
  LET solid == {k \in 1..Len(t) : t[k] # ""}
  IN IF solid = {} THEN <<"">> ELSE SubSeq(t, Least(solid), Greatest(solid))

\* lines.join('\n')
joinLines(ls) == IF ls = <<>> THEN <<"">> ELSE ls

\* The tail of enhanceFileContent and of rewriteFileContent: the answer is
\* trimmed; if it starts with a fence its first line is dropped, and its last
\* line when that is a bare fence.  With nothing after the first line,
\* lines[lines.length - 1] is undefined and .trim() throws a TypeError.
stripCodeBlock(answer) ==
  LET content == trim(answer)
  IN IF content[1] \in {Fence, FenceJson}
       THEN LET lines == Tail(content)
            IN IF lines = <<>> THEN [ok |-> FALSE, text |-> <<"">>]
               ELSE IF lines[Len(lines)] = Fence
                 THEN [ok |-> TRUE, text |-> joinLines(SubSeq(lines, 1, Len(lines) - 1))]
               ELSE [ok |-> TRUE, text |-> joinLines(lines)]
     ELSE [ok |-> TRUE, text |-> content]

(***************************************************************************)
(* The server: the file system, the requests in flight, the clock.         *)
(***************************************************************************)
VARIABLES
  fs,        \* the file system: path -> node
  req,       \* slot -> the request it serves (its parameters and locals)
  now,       \* Date.now()
  uuids,     \* how many identifiers uuidv4() has returned
  issued,    \* the project identifiers clients have been told
  started,   \* how many requests have been received
  content,   \* a provider answer given to the extraction
  extracted, \* what the extraction made of it
  deleted,   \* the project identifiers whose deletion has completed
  alive      \* the server process is running

vars == <<fs, req, now, uuids, issued, started, content, extracted, deleted, alive>>

\* Bounds of the model.
MaxInFlight == 2
MaxRequests == 2
MaxNow == 1
MaxUuids == 1
MaxContentLen == 4
MaxFragments == 2

Slots == 1..MaxInFlight

NoOut == [type |-> "none", kind |-> "none", text |-> <<>>, json |-> NoJson]

Idle == [op |-> "none", pc |-> "idle", id |-> "", path |-> <<>>, has |-> FALSE,
         data |-> <<"">>, cur |-> NoOut, new |-> <<"">>, bak |-> <<>>,
         answer |-> <<>>, stamp |-> 0, status |-> 0, out |-> NoOut, calls |-> 0,
         failed |-> FALSE, sent |-> FALSE, order |-> <<>>, head |-> FALSE, left |-> 0,
         gone |-> FALSE]

\* uuidv4(): the k-th identifier.
Uuid(k) == "p" \o ToString(k)

\* An identifier under which nothing was generated.
UnknownId == "unknown"

\* The project an earlier run of the server left on the disk.
EarlierId == "p0"

\* What clients send.
ClientIds == issued \cup {UnknownId}
ClientPaths == {<<"src", "app.js">>, <<"src">>, <<"project-metadata.json">>}
ClientTexts == {<<"y">>, <<"">>, <<"{}">>}
Prompt == "make a thing"
Model == "llama-4-scout"

\* What the provider may answer to generate, and to enhance and rewrite.
GenerateAnswers ==
  { <<FenceJson, WS, "{", "D1", "}", WS, Fence>>, <<"x", "{", "D2", "}">>,
    <<"{", "D3", "}">>, <<"{", "D4", "}">>, <<"{", "D5", "}">>, <<"x">>, <<"null">>, <<FenceJson, "{", "D1", "}">> }
EditAnswers == { <<"b">>, <<FenceJson, "c", Fence>>, <<Fence>> }

fullPathOf(r) == pathJoin(PROJECTS_DIR, <<req[r].id>> \o req[r].path)

\* res.status(code).json(...), the end of a request.
respond(r, code, body) == [req[r] EXCEPT !.pc = "done", !.status = code, !.out = body]

\* A request arrives and takes the first free slot.
Receive(r, rec) ==
  /\ alive
  /\ req[r].pc \in {"idle", "done"}
  /\ \A q \in Slots : q < r => req[q].pc \notin {"idle", "done"}
  /\ started < MaxRequests
  /\ started' = started + 1
  /\ req' = [req EXCEPT ![r] = rec]

\* The clock moves.
Tick ==
  /\ now < MaxNow
  /\ now' = now + 1
  /\ UNCHANGED <<fs, req, uuids, issued, started, content, extracted, deleted, alive>>

(***************************************************************************)
(* PUT /api/project/:projectId/file/*                                      *)
(***************************************************************************)
\* A variant of the check that takes an empty content for a missing one.
UpdateFileFalsy(r) ==
  \E id \in ClientIds, p \in ClientPaths, has \in BOOLEAN, data \in ClientTexts :
    /\ Receive(r, IF has /\ data # <<"">>
                    THEN [Idle EXCEPT !.op = "update", !.pc = "mkdir", !.id = id, !.path = p,
                                      !.has = TRUE, !.data = data]
                  ELSE [Idle EXCEPT !.op = "update", !.pc = "done", !.id = id, !.path = p,
                                    !.has = has, !.data = IF has THEN data ELSE <<>>,
                                    !.status = 400])
    /\ UNCHANGED <<fs, now, uuids, issued, content, extracted, deleted, alive>>

UpdateFile(r) ==
  \E id \in ClientIds, p \in ClientPaths, has \in BOOLEAN, data \in ClientTexts :
    /\ Receive(r, IF has
                    THEN [Idle EXCEPT !.op = "update", !.pc = "mkdir", !.id = id, !.path = p,
                                      !.has = TRUE, !.data = data]
                  ELSE [Idle EXCEPT !.op = "update", !.pc = "done", !.id = id, !.path = p,
                                    !.status = 400])
    /\ UNCHANGED <<fs, now, uuids, issued, content, extracted, deleted, alive>>

\* The wildcard of the route is taken as sent: a request whose path carries
\* ".." segments (sent as they are, or percent-encoded) reaches the handler.
AcrossPaths == {<<"..", EarlierId, "src", "app.js">>}

UpdateFileAcross(r) ==
  \E id \in ClientIds, p \in AcrossPaths, data \in ClientTexts :
    /\ Receive(r, [Idle EXCEPT !.op = "update", !.pc = "mkdir", !.id = id, !.path = p,
                               !.has = TRUE, !.data = data])
    /\ UNCHANGED <<fs, now, uuids, issued, content, extracted, deleted, alive>>

UpdateFileMkdir(r) ==
  /\ req[r].op = "update" /\ req[r].pc = "mkdir"
  /\ LET dirPath == pathDirname(fullPathOf(r))
     IN IF mkdirOk(fs, dirPath)
          THEN /\ fs' = mkdir(fs, dirPath)
               /\ req' = [req EXCEPT ![r].pc = "write"]
        ELSE /\ fs' = fs
             /\ req' = [req EXCEPT ![r] = respond(r, 500, NoOut)]
  /\ UNCHANGED <<now, uuids, issued, started, content, extracted, deleted, alive>>

\* A variant of the write that leaves an existing file as it is.
UpdateFileWriteOnce(r) ==
  /\ req[r].op = "update" /\ req[r].pc = "write"
  /\ IF writeFileOk(fs, fullPathOf(r))
       THEN /\ fs' = IF IsFile(fs, fullPathOf(r)) THEN fs
                     ELSE writeFile(fs, fullPathOf(r), TextFile(req[r].data))
            /\ req' = [req EXCEPT ![r] = respond(r, 200, NoOut)]
     ELSE /\ fs' = fs
          /\ req' = [req EXCEPT ![r] = respond(r, 500, NoOut)]
  /\ UNCHANGED <<now, uuids, issued, started, content, extracted, deleted, alive>>

UpdateFileWrite(r) ==
  /\ req[r].op = "update" /\ req[r].pc = "write"
  /\ IF writeFileOk(fs, fullPathOf(r))
       THEN /\ fs' = writeFile(fs, fullPathOf(r), TextFile(req[r].data))
            /\ req' = [req EXCEPT ![r] = respond(r, 200, NoOut)]
     ELSE /\ fs' = fs
          /\ req' = [req EXCEPT ![r] = respond(r, 500, NoOut)]
  /\ UNCHANGED <<now, uuids, issued, started, content, extracted, deleted, alive>>

(***************************************************************************)
(* GET /api/project/:projectId/file/*                                      *)
(***************************************************************************)
GetFile(r) ==
  \E id \in ClientIds, p \in ClientPaths :
    /\ Receive(r, [Idle EXCEPT !.op = "file", !.pc = "stat", !.id = id, !.path = p])
    /\ UNCHANGED <<fs, now, uuids, issued, content, extracted, deleted, alive>>

\* The status for a path that fs.stat finds to be a directory.
directoryStatus == 400

\* A variant of the stat step that answers 404 for a directory as well.
GetFileStatDirectoryNotFound(r) ==
  /\ req[r].op = "file" /\ req[r].pc = "stat"
  /\ req' = [req EXCEPT ![r] =
       IF ~Exists(fs, fullPathOf(r)) \/ IsDir(fs, fullPathOf(r)) THEN respond(r, 404, NoOut)
       ELSE [req[r] EXCEPT !.pc = "read"]]
  /\ UNCHANGED <<fs, now, uuids, issued, started, content, extracted, deleted, alive>>

GetFileStat(r) ==
  /\ req[r].op = "file" /\ req[r].pc = "stat"
  /\ req' = [req EXCEPT ![r] =
       IF ~Exists(fs, fullPathOf(r)) THEN respond(r, 404, NoOut)
       ELSE IF IsDir(fs, fullPathOf(r)) THEN respond(r, directoryStatus, NoOut)
       ELSE [req[r] EXCEPT !.pc = "read"]]
  /\ UNCHANGED <<fs, now, uuids, issued, started, content, extracted, deleted, alive>>

GetFileRead(r) ==
  /\ req[r].op = "file" /\ req[r].pc = "read"
  /\ req' = [req EXCEPT ![r] =
       IF readFileOk(fs, fullPathOf(r)) THEN respond(r, 200, fs[fullPathOf(r)])
       ELSE respond(r, 404, NoOut)]
  /\ UNCHANGED <<fs, now, uuids, issued, started, content, extracted, deleted, alive>>

(***************************************************************************)
(* PUT /api/project/:projectId/enhance/*  and  .../rewrite/*               *)
(* Everything after the check of the body runs inside the inner try, whose *)
(* catch answers 404 'File not found'.                                     *)
(***************************************************************************)
Enhance(r) ==
  \E id \in ClientIds, p \in ClientPaths, has \in BOOLEAN :
    /\ Receive(r, IF has
                    THEN [Idle EXCEPT !.op = "enhance", !.pc = "read", !.id = id, !.path = p,
                                      !.has = TRUE]
                  ELSE [Idle EXCEPT !.op = "enhance", !.pc = "done", !.id = id, !.path = p,
                                    !.status = 400])
    /\ UNCHANGED <<fs, now, uuids, issued, content, extracted, deleted, alive>>

Rewrite(r) ==
  \E id \in ClientIds, p \in ClientPaths, has \in BOOLEAN :
    /\ Receive(r, IF has
                    THEN [Idle EXCEPT !.op = "rewrite", !.pc = "read", !.id = id, !.path = p,
                                      !.has = TRUE]
                  ELSE [Idle EXCEPT !.op = "rewrite", !.pc = "done", !.id = id, !.path = p,
                                    !.status = 400])
    /\ UNCHANGED <<fs, now, uuids, issued, content, extracted, deleted, alive>>

\* const currentContent = await fs.readFile(fullPath, 'utf8')
EditRead(r) ==
  /\ req[r].op \in {"enhance", "rewrite"} /\ req[r].pc = "read"
  /\ req' = [req EXCEPT ![r] =
       IF readFileOk(fs, fullPathOf(r))
         THEN [req[r] EXCEPT !.pc = "provider", !.cur = fs[fullPathOf(r)]]
       ELSE respond(r, 404, NoOut)]
  /\ UNCHANGED <<fs, now, uuids, issued, started, content, extracted, deleted, alive>>

\* The status of the inner catch, which also takes the provider's failures.
innerCatchStatus == 404

\* `${fullPath}.backup` for enhance, `${fullPath}.backup.${Date.now()}` for rewrite.
backupPath(op, fullPath, t) ==
  IF op = "enhance" THEN withSuffix(fullPath, ".backup")
  ELSE withSuffix(fullPath, ".backup." \o ToString(t))

\* A variant of the provider step that has the backup written before the
\* provider is called.
EditProviderBackupFirst(r) ==
  /\ req[r].op \in {"enhance", "rewrite"} /\ req[r].pc = "provider"
  /\ fs' = writeFile(fs, backupPath(req[r].op, fullPathOf(r), now), req[r].cur)
  /\ \/ req' = [req EXCEPT ![r] =
            [respond(r, innerCatchStatus, NoOut) EXCEPT !.calls = req[r].calls + 1,
                                                        !.failed = TRUE]]
     \/ \E answer \in EditAnswers :
          req' = [req EXCEPT ![r] =
            IF stripCodeBlock(answer).ok
              THEN [req[r] EXCEPT !.pc = "backup", !.answer = answer,
                                  !.new = stripCodeBlock(answer).text,
                                  !.bak = backupPath(req[r].op, fullPathOf(r), now),
                                  !.calls = req[r].calls + 1]
            ELSE [respond(r, innerCatchStatus, NoOut) EXCEPT !.calls = req[r].calls + 1]]
  /\ UNCHANGED <<now, uuids, issued, started, content, extracted, deleted, alive>>

\* projectGenerator.enhanceFileContent / rewriteFileContent: one call of the
\* provider, which throws or answers; then the backup path is computed.
EditProvider(r) ==
  /\ req[r].op \in {"enhance", "rewrite"} /\ req[r].pc = "provider"
  /\ \/ req' = [req EXCEPT ![r] =
            [respond(r, innerCatchStatus, NoOut) EXCEPT !.calls = req[r].calls + 1,
                                                        !.failed = TRUE]]
     \/ \E answer \in EditAnswers :
          req' = [req EXCEPT ![r] =
            IF stripCodeBlock(answer).ok
              THEN [req[r] EXCEPT !.pc = "backup", !.answer = answer,
                                  !.new = stripCodeBlock(answer).text,
                                  !.bak = backupPath(req[r].op, fullPathOf(r), now),
                                  !.calls = req[r].calls + 1]
            ELSE [respond(r, innerCatchStatus, NoOut) EXCEPT !.calls = req[r].calls + 1]]
  /\ UNCHANGED <<fs, now, uuids, issued, started, content, extracted, deleted, alive>>

\* A variant of the backup step that takes the copy from the new content.
EditBackupOfNewContent(r) ==
  /\ req[r].op \in {"enhance", "rewrite"} /\ req[r].pc = "backup"
  /\ IF writeFileOk(fs, req[r].bak)
       THEN /\ fs' = writeFile(fs, req[r].bak, TextFile(req[r].new))
            /\ req' = [req EXCEPT ![r].pc = "replace"]
     ELSE /\ fs' = fs
          /\ req' = [req EXCEPT ![r] = respond(r, innerCatchStatus, NoOut)]
  /\ UNCHANGED <<now, uuids, issued, started, content, extracted, deleted, alive>>

\* A variant of the backup step that copies what the file holds at that moment.
EditBackupOfLiveContent(r) ==
  /\ req[r].op \in {"enhance", "rewrite"} /\ req[r].pc = "backup"
  /\ IF writeFileOk(fs, req[r].bak)
       THEN /\ fs' = writeFile(fs, req[r].bak,
                                IF IsFile(fs, fullPathOf(r)) THEN fs[fullPathOf(r)]
                                ELSE req[r].cur)
            /\ req' = [req EXCEPT ![r].pc = "replace"]
     ELSE /\ fs' = fs
          /\ req' = [req EXCEPT ![r] = respond(r, innerCatchStatus, NoOut)]
  /\ UNCHANGED <<now, uuids, issued, started, content, extracted, deleted, alive>>

\* await fs.writeFile(backupPath, currentContent)
EditBackup(r) ==
  /\ req[r].op \in {"enhance", "rewrite"} /\ req[r].pc = "backup"
  /\ IF writeFileOk(fs, req[r].bak)
       THEN /\ fs' = writeFile(fs, req[r].bak, req[r].cur)
            /\ req' = [req EXCEPT ![r].pc = "replace"]
     ELSE /\ fs' = fs
          /\ req' = [req EXCEPT ![r] = respond(r, innerCatchStatus, NoOut)]
  /\ UNCHANGED <<now, uuids, issued, started, content, extracted, deleted, alive>>

\* A variant of the overwrite that also records the edit in the project's
\* metadata file.
EditReplaceRecorded(r) ==
  /\ req[r].op \in {"enhance", "rewrite"} /\ req[r].pc = "replace"
  /\ IF writeFileOk(fs, fullPathOf(r))
       THEN /\ fs' = LET g == writeFile(fs, fullPathOf(r), TextFile(req[r].new))
                         m == pathJoin(PROJECTS_DIR, <<req[r].id, "project-metadata.json">>)
                     IN IF IsFile(g, m) /\ g[m].kind = "json"
                          THEN writeFile(g, m, JsonFile([g[m].json EXCEPT !.model = "edited"]))
                        ELSE g
            /\ req' = [req EXCEPT ![r] = respond(r, 200, TextFile(req[r].new))]
     ELSE /\ fs' = fs
          /\ req' = [req EXCEPT ![r] = respond(r, innerCatchStatus, NoOut)]
  /\ UNCHANGED <<now, uuids, issued, started, content, extracted, deleted, alive>>

\* await fs.writeFile(fullPath, enhancedContent), then the answer.
EditReplace(r) ==
  /\ req[r].op \in {"enhance", "rewrite"} /\ req[r].pc = "replace"
  /\ IF writeFileOk(fs, fullPathOf(r))
       THEN /\ fs' = writeFile(fs, fullPathOf(r), TextFile(req[r].new))
            /\ req' = [req EXCEPT ![r] = respond(r, 200, TextFile(req[r].new))]
     ELSE /\ fs' = fs
          /\ req' = [req EXCEPT ![r] = respond(r, innerCatchStatus, NoOut)]
  /\ UNCHANGED <<now, uuids, issued, started, content, extracted, deleted, alive>>

(***************************************************************************)
(* POST /api/generate                                                      *)
(***************************************************************************)
projectPathOf(r) == pathJoin(PROJECTS_DIR, <<req[r].id>>)

\* The body is checked, then const projectId = uuidv4().
Generate(r) ==
  /\ uuids < MaxUuids
  /\ \E has \in BOOLEAN :
       /\ Receive(r, IF has
                       THEN [Idle EXCEPT !.op = "generate", !.pc = "provider",
                                         !.id = Uuid(uuids + 1), !.has = TRUE]
                     ELSE [Idle EXCEPT !.op = "generate", !.pc = "done", !.status = 400])
       /\ uuids' = IF has THEN uuids + 1 ELSE uuids
  /\ UNCHANGED <<fs, now, issued, content, extracted, deleted, alive>>

\* generateProjectStructure: one call of the provider, then the extraction;
\* reading .fileTree of null throws before createProjectFiles is called.
GenerateProvider(r) ==
  /\ req[r].op = "generate" /\ req[r].pc = "provider"
  /\ \/ req' = [req EXCEPT ![r] =
            [respond(r, 500, NoOut) EXCEPT !.calls = req[r].calls + 1, !.failed = TRUE]]
     \/ \E answer \in GenerateAnswers :
          req' = [req EXCEPT ![r] =
            IF extractJson(answer).ok /\ projectDataOf(extractJson(answer).value).shape # "null"
              THEN [req[r] EXCEPT !.pc = "materialize", !.answer = answer,
                                  !.calls = req[r].calls + 1]
            ELSE [respond(r, 500, NoOut) EXCEPT !.answer = answer, !.calls = req[r].calls + 1]]
  /\ UNCHANGED <<fs, now, uuids, issued, started, content, extracted, deleted, alive>>

\* await FileSystemManager.createProjectFiles(projectId, projectData.fileTree);
\* without a fileTree, Object.entries throws after the project directory is
\* made.  The metadata object, with its timestamp, is built when it returns.
GenerateMaterialize(r) ==
  /\ req[r].op = "generate" /\ req[r].pc = "materialize"
  /\ LET data == projectDataOf(extractJson(req[r].answer).value)
         made == IF data.shape = "descriptor"
                   THEN createProjectFiles(fs, req[r].id, DescriptorOf(data.token).fileTree)
                 ELSE IF mkdirOk(fs, projectPathOf(r))
                   THEN [fs |-> mkdir(fs, projectPathOf(r)), ok |-> FALSE]
                 ELSE [fs |-> fs, ok |-> FALSE]
     IN /\ fs' = made.fs
        /\ req' = [req EXCEPT ![r] =
             IF made.ok THEN [req[r] EXCEPT !.pc = "metadata", !.stamp = now]
             ELSE respond(r, 500, NoOut)]
  /\ UNCHANGED <<now, uuids, issued, started, content, extracted, deleted, alive>>

\* await fs.writeFile(path.join(projectPath, 'project-metadata.json'), ...);
\* then the README template is filled in, which throws when setupInstructions
\* or apiEndpoints is no array.
GenerateMetadata(r) ==
  /\ req[r].op = "generate" /\ req[r].pc = "metadata"
  /\ LET token == projectDataOf(extractJson(req[r].answer).value).token
         metadataPath == pathJoin(projectPathOf(r), <<"project-metadata.json">>)
     IN IF writeFileOk(fs, metadataPath)
          THEN /\ fs' = writeFile(fs, metadataPath,
                          JsonFile(metadataOf(req[r].id, Prompt, Model, req[r].stamp, token)))
               /\ req' = [req EXCEPT ![r] =
                    IF DescriptorOf(token).lists THEN [req[r] EXCEPT !.pc = "readme"]
                    ELSE respond(r, 500, NoOut)]
        ELSE /\ fs' = fs
             /\ req' = [req EXCEPT ![r] = respond(r, 500, NoOut)]
  /\ UNCHANGED <<now, uuids, issued, started, content, extracted, deleted, alive>>

\* await fs.writeFile(path.join(projectPath, 'README.md'), readmeContent), then
\* res.json({ success: true, projectId, ... }).
GenerateReadme(r) ==
  /\ req[r].op = "generate" /\ req[r].pc = "readme"
  /\ LET token == projectDataOf(extractJson(req[r].answer).value).token
         readmePath == pathJoin(projectPathOf(r), <<"README.md">>)
     IN IF writeFileOk(fs, readmePath)
          THEN /\ fs' = writeFile(fs, readmePath, TextFile(readmeContent(token)))
               /\ req' = [req EXCEPT ![r] = respond(r, 200, NoOut)]
               /\ issued' = issued \cup {req[r].id}
        ELSE /\ fs' = fs
             /\ req' = [req EXCEPT ![r] = respond(r, 500, NoOut)]
             /\ issued' = issued
  /\ UNCHANGED <<now, uuids, started, content, extracted, deleted, alive>>

(***************************************************************************)
(* GET /api/download/:projectId                                            *)
(***************************************************************************)
zipPathOf(r) == withSuffix(pathJoin(PROJECTS_DIR, <<req[r].id>>), ".zip")

Download(r) ==
  \E id \in ClientIds :
    /\ Receive(r, [Idle EXCEPT !.op = "download", !.pc = "access", !.id = id])
    /\ UNCHANGED <<fs, now, uuids, issued, content, extracted, deleted, alive>>

\* await fs.access(projectPath); the metadata is then read for the file name.
DownloadAccess(r) ==
  /\ req[r].op = "download" /\ req[r].pc = "access"
  /\ req' = [req EXCEPT ![r] =
       IF Exists(fs, projectPathOf(r)) THEN [req[r] EXCEPT !.pc = "open"]
       ELSE respond(r, 404, NoOut)]
  /\ UNCHANGED <<fs, now, uuids, issued, started, content, extracted, deleted, alive>>

\* createZipArchive: fs.createWriteStream(outputPath) creates or truncates
\* the archive file.
DownloadOpen(r) ==
  /\ req[r].op = "download" /\ req[r].pc = "open"
  /\ fs' = writeFile(fs, zipPathOf(r), ZipFile(<<>>))
  /\ req' = [req EXCEPT ![r].pc = "archive"]
  /\ UNCHANGED <<now, uuids, issued, started, content, extracted, deleted, alive>>

\* The files under the project directory, by their path inside it.
projectFiles(f, projectPath) ==
  LET inside == {q \in DOMAIN f : IsPrefix(projectPath, q) /\ q # projectPath /\ f[q].type = "file"}
  IN [q \in {SubSeq(x, Len(projectPath) + 1, Len(x)) : x \in inside} |-> f[projectPath \o q]]

\* archive.directory(projectPath, false); archive.finalize(); the promise
\* resolves when the output closes.
DownloadArchive(r) ==
  /\ req[r].op = "download" /\ req[r].pc = "archive"
  /\ fs' = writeFile(fs, zipPathOf(r), ZipFile(projectFiles(fs, projectPathOf(r))))
  /\ req' = [req EXCEPT ![r].pc = "send"]
  /\ UNCHANGED <<now, uuids, issued, started, content, extracted, deleted, alive>>

\* What the callback of res.download does with its err: deletes the archive
\* when there is none.
cleansUp(err) == ~err

\* res.download(zipPath, name, callback): the transfer ends with or without
\* an error (the file is gone, the client went away).
DownloadSend(r) ==
  /\ req[r].op = "download" /\ req[r].pc = "send"
  /\ \E err \in BOOLEAN :
       /\ ~IsFile(fs, zipPathOf(r)) => err
       /\ req' = [req EXCEPT ![r] =
            IF cleansUp(err)
              THEN [req[r] EXCEPT !.pc = "unlink", !.status = 200, !.sent = ~err,
                                  !.out = IF err THEN NoOut ELSE fs[zipPathOf(r)]]
            ELSE [respond(r, 200, IF err THEN NoOut ELSE fs[zipPathOf(r)]) EXCEPT !.sent = ~err]]
  /\ UNCHANGED <<fs, now, uuids, issued, started, content, extracted, deleted, alive>>

\* fs.unlink(zipPath).catch(console.error)
DownloadUnlink(r) ==
  /\ req[r].op = "download" /\ req[r].pc = "unlink"
  /\ fs' = rm(fs, zipPathOf(r))
  /\ req' = [req EXCEPT ![r].pc = "done"]
  /\ UNCHANGED <<now, uuids, issued, started, content, extracted, deleted, alive>>

(***************************************************************************)
(* POST /api/chat                                                          *)
(***************************************************************************)
Chat(r) ==
  \E has \in BOOLEAN :
    /\ Receive(r, IF has THEN [Idle EXCEPT !.op = "chat", !.pc = "provider", !.has = TRUE]
                  ELSE [Idle EXCEPT !.op = "chat", !.pc = "done", !.status = 400])
    /\ UNCHANGED <<fs, now, uuids, issued, content, extracted, deleted, alive>>

\* const response = await groqClient.chat(model, messages)
ChatProvider(r) ==
  /\ req[r].op = "chat" /\ req[r].pc = "provider"
  /\ \/ req' = [req EXCEPT ![r] =
            [respond(r, 500, NoOut) EXCEPT !.calls = req[r].calls + 1, !.failed = TRUE]]
     \/ \E answer \in EditAnswers :
          req' = [req EXCEPT ![r] =
            [respond(r, 200, TextFile(answer)) EXCEPT !.calls = req[r].calls + 1]]
  /\ UNCHANGED <<fs, now, uuids, issued, started, content, extracted, deleted, alive>>

(***************************************************************************)
(* POST /api/chat/stream                                                   *)
(* (In both chat handlers the read of the project's metadata for the       *)
(* prompt changes nothing and its failure is ignored.)                     *)
(***************************************************************************)
ChatStream(r) ==
  \E has \in BOOLEAN :
    /\ Receive(r, IF has THEN [Idle EXCEPT !.op = "stream", !.pc = "head", !.has = TRUE]
                  ELSE [Idle EXCEPT !.op = "stream", !.pc = "done", !.status = 400])
    /\ UNCHANGED <<fs, now, uuids, issued, content, extracted, deleted, alive>>

\* res.writeHead(200, {...}): the status line and the headers are on their way.
ChatStreamHead(r) ==
  /\ req[r].op = "stream" /\ req[r].pc = "head"
  /\ req' = [req EXCEPT ![r] = [req[r] EXCEPT !.pc = "provider", !.status = 200, !.head = TRUE]]
  /\ UNCHANGED <<fs, now, uuids, issued, started, content, extracted, deleted, alive>>

\* The catch block after the head was written: res.status(500).json(...)
\* throws (the headers were sent), the exception leaves the handler and the
\* response is never ended.
escaped(r) == [req[r] EXCEPT !.pc = "escaped", !.failed = TRUE]

\* The rejection of the handler's promise is handled by nobody: the process
\* (node >= 18) exits, and the connections of the requests in flight are reset.
unhandledRejection(r, rec) ==
  [q \in Slots |-> IF q = r THEN rec
                   ELSE IF req[q].pc \in {"idle", "done"} THEN req[q]
                   ELSE [req[q] EXCEPT !.pc = "reset"]]

\* const chatCompletion = await groqClient.chatStream(model, messages): the
\* call fails, or returns a stream of some fragments.
ChatStreamProvider(r) ==
  /\ req[r].op = "stream" /\ req[r].pc = "provider"
  /\ \/ /\ req' = unhandledRejection(r, [escaped(r) EXCEPT !.calls = req[r].calls + 1])
        /\ alive' = FALSE
     \/ /\ \E n \in 0..MaxFragments :
             req' = [req EXCEPT ![r] =
               [req[r] EXCEPT !.pc = "stream", !.left = n, !.calls = req[r].calls + 1,
                              !.out = TextFile(<<>>)]]
        /\ alive' = alive
  /\ UNCHANGED <<fs, now, uuids, issued, started, content, extracted, deleted>>

\* The caller closes the connection while the answer is on its way.  The
\* handler has no listener for it.
ClientDisconnect(r) ==
  /\ req[r].op = "stream" /\ req[r].pc \in {"provider", "stream"} /\ ~req[r].gone
  /\ req' = [req EXCEPT ![r].gone = TRUE]
  /\ UNCHANGED <<fs, now, uuids, issued, started, content, extracted, deleted, alive>>

\* One turn of for await (const chunk of chatCompletion): the next fragment is
\* asked of the provider and written to the response (res.write on a closed
\* connection drops it and does not throw), or the stream throws.
ChatStreamPull(r) ==
  /\ req[r].op = "stream" /\ req[r].pc = "stream" /\ req[r].left > 0
  /\ \/ /\ req' = [req EXCEPT ![r] =
               [req[r] EXCEPT !.left = req[r].left - 1,
                              !.out = IF req[r].gone THEN req[r].out
                                      ELSE TextFile(Append(req[r].out.text, "fragment"))]]
        /\ alive' = alive
     \/ /\ req' = unhandledRejection(r, escaped(r))
        /\ alive' = FALSE
  /\ UNCHANGED <<fs, now, uuids, issued, started, content, extracted, deleted>>

\* res.end()
ChatStreamEnd(r) ==
  /\ req[r].op = "stream" /\ req[r].pc = "stream" /\ req[r].left = 0
  /\ req' = [req EXCEPT ![r].pc = "done"]
  /\ UNCHANGED <<fs, now, uuids, issued, started, content, extracted, deleted, alive>>

(***************************************************************************)
(* DELETE /api/project/:projectId                                          *)
(***************************************************************************)
DeleteProject(r) ==
  \E id \in ClientIds :
    /\ Receive(r, [Idle EXCEPT !.op = "delete", !.pc = "rm", !.id = id])
    /\ UNCHANGED <<fs, now, uuids, issued, content, extracted, deleted, alive>>

\* A variant of the deletion that answers 404 when there is no such directory.
DeleteProjectRmStrict(r) ==
  /\ req[r].op = "delete" /\ req[r].pc = "rm"
  /\ fs' = rm(fs, projectPathOf(r))
  /\ req' = [req EXCEPT ![r] =
       IF Exists(fs, projectPathOf(r)) THEN respond(r, 200, NoOut) ELSE respond(r, 404, NoOut)]
  /\ deleted' = deleted \cup {req[r].id}
  /\ UNCHANGED <<now, uuids, issued, started, content, extracted, alive>>

\* await fs.rm(projectPath, { recursive: true, force: true })
DeleteProjectRm(r) ==
  /\ req[r].op = "delete" /\ req[r].pc = "rm"
  /\ fs' = rm(fs, projectPathOf(r))
  /\ req' = [req EXCEPT ![r] = respond(r, 200, NoOut)]
  /\ deleted' = deleted \cup {req[r].id}
  /\ UNCHANGED <<now, uuids, issued, started, content, extracted, alive>>

(***************************************************************************)
(* GET /api/project/:projectId                                             *)
(***************************************************************************)

\* JSON.parse of what fs.readFile returns: a file written with
\* JSON.stringify(v) gives v back; of the texts only "null" and "{}" are JSON.
parseStored(node) ==
  IF node.kind = "json" THEN [ok |-> TRUE, isNull |-> FALSE, value |-> node.json]
  ELSE IF node.kind = "text" /\ node.text = <<"null">>
    THEN [ok |-> TRUE, isNull |-> TRUE, value |-> NoKeys]
  ELSE IF node.kind = "text" /\ node.text = <<"{}">>
    THEN [ok |-> TRUE, isNull |-> FALSE, value |-> NoKeys]
  ELSE [ok |-> FALSE, isNull |-> FALSE, value |-> NoKeys]

\* A variant of the scan that reports the regular files only.
getFileTreeFilesOnly(f, projectPath) ==
  {SubSeq(q, Len(projectPath) + 1, Len(q)) :
     q \in {x \in DOMAIN f : IsPrefix(projectPath, x) /\ x # projectPath /\ f[x].type = "file"}}

\* FileSystemManager.getFileTree(projectPath): the keys of the tree, one for
\* every directory and file below projectPath, relative to it.
getFileTree(f, projectPath) ==
  {SubSeq(q, Len(projectPath) + 1, Len(q)) :
     q \in {x \in DOMAIN f : IsPrefix(projectPath, x) /\ x # projectPath}}

\* The body of a 200 answer that is an object.
JsonBody(kind, v) == [type |-> "body", kind |-> kind, text |-> <<>>, json |-> v]

GetProject(r) ==
  \E id \in ClientIds :
    /\ Receive(r, [Idle EXCEPT !.op = "get", !.pc = "read", !.id = id])
    /\ UNCHANGED <<fs, now, uuids, issued, content, extracted, deleted, alive>>

\* await fs.access(projectPath); await fs.readFile(metadataPath); JSON.parse.
GetProjectRead(r) ==
  /\ req[r].op = "get" /\ req[r].pc = "read"
  /\ LET metadataPath == pathJoin(projectPathOf(r), <<"project-metadata.json">>)
     IN req' = [req EXCEPT ![r] =
          IF Exists(fs, projectPathOf(r)) /\ readFileOk(fs, metadataPath)
               /\ parseStored(fs[metadataPath]).ok
            THEN [req[r] EXCEPT !.pc = "scan", !.cur = fs[metadataPath]]
          ELSE respond(r, 404, NoOut)]
  /\ UNCHANGED <<fs, now, uuids, issued, started, content, extracted, deleted, alive>>

\* await FileSystemManager.getFileTree(projectPath), whose readdir throws when
\* the directory is gone, and res.json({...projectData, currentFileTree}).
GetProjectScan(r) ==
  /\ req[r].op = "get" /\ req[r].pc = "scan"
  /\ req' = [req EXCEPT ![r] =
       IF IsDir(fs, projectPathOf(r))
         THEN respond(r, 200, JsonBody("project",
                [data |-> parseStored(req[r].cur).value,
                 currentFileTree |-> getFileTree(fs, projectPathOf(r))]))
       ELSE respond(r, 404, NoOut)]
  /\ UNCHANGED <<fs, now, uuids, issued, started, content, extracted, deleted, alive>>

(***************************************************************************)
(* GET /api/projects                                                       *)
(***************************************************************************)

\* fs.readdir(dir): the names of the immediate children.
readdir(f, dir) == {q[Len(dir) + 1] : q \in {x \in DOMAIN f : IsPrefix(dir, x) /\ Len(x) = Len(dir) + 1}}

\* The orders in which readdir may return the names.
Orders(S) == {o \in [1..Cardinality(S) -> S] : \A i, j \in 1..Cardinality(S) : i # j => o[i] # o[j]}

\* The directory names requests can make: the identifiers, and the ".zip"
\* names of their archives.
ProjectNames == {Uuid(k) : k \in 0..(MaxUuids + 1)} \cup {UnknownId}

\* dir.endsWith('.zip')
endsWithZip(dir) == \E b \in ProjectNames : dir = b \o ".zip"

\* new Date(projectData.generated): an Invalid Date when the record has none.
NoDate == [valid |-> FALSE, at |-> 0]

\* The summary pushed for a parsed metadata record; an absent key is undefined.
summaryOf(m) ==
  [id |-> IF "id" \in DOMAIN m THEN m.id ELSE "undefined",
   name |-> IF "projectName" \in DOMAIN m THEN m.projectName ELSE "undefined",
   model |-> IF "model" \in DOMAIN m THEN m.model ELSE "undefined",
   generated |-> IF "generated" \in DOMAIN m THEN [valid |-> TRUE, at |-> m.generated] ELSE NoDate]

\* One pass of the loop body: whether dir yields a summary.  A name ending in
\* ".zip" is passed over; a failing readFile or JSON.parse, and the TypeError
\* of reading .id of null, are caught.
yieldsSummary(f, dir) ==
  LET metadataPath == pathJoin(PROJECTS_DIR, <<dir, "project-metadata.json">>)
  IN /\ ~endsWithZip(dir)
     /\ readFileOk(f, metadataPath)
     /\ parseStored(f[metadataPath]).ok
     /\ ~parseStored(f[metadataPath]).isNull

RECURSIVE collectUntilBad(_, _)
\* A variant of the loop that ends at the first name that yields no summary.
collectUntilBad(f, dirs) ==
  IF dirs = <<>> THEN <<>>
  ELSE LET metadataPath == pathJoin(PROJECTS_DIR, <<Head(dirs), "project-metadata.json">>)
       IN IF yieldsSummary(f, Head(dirs))
            THEN <<summaryOf(parseStored(f[metadataPath]).value)>> \o collectUntilBad(f, Tail(dirs))
          ELSE <<>>

RECURSIVE collect(_, _)
\* The loop over projectDirs: the summaries in the order of the names.
collect(f, dirs) ==
  IF dirs = <<>> THEN <<>>
  ELSE LET metadataPath == pathJoin(PROJECTS_DIR, <<Head(dirs), "project-metadata.json">>)
       IN IF yieldsSummary(f, Head(dirs))
            THEN <<summaryOf(parseStored(f[metadataPath]).value)>> \o collect(f, Tail(dirs))
          ELSE collect(f, Tail(dirs))

\* (a, b) => new Date(b.generated) - new Date(a.generated); the sort takes a
\* NaN result as +0.
compare(a, b) ==
  IF a.generated.valid /\ b.generated.valid THEN b.generated.at - a.generated.at ELSE 0

RECURSIVE runEnd(_, _, _)
\* Array.prototype.sort, the run at the head of the array: the index of its
\* last element, for a run that goes on through idx - 1.
runEnd(ps, descending, idx) ==
  IF idx > Len(ps) THEN Len(ps)
  ELSE LET order == compare(ps[idx], ps[idx - 1])
       IN IF descending
            THEN (IF order >= 0 THEN idx - 1 ELSE runEnd(ps, descending, idx + 1))
          ELSE (IF order < 0 THEN idx - 1 ELSE runEnd(ps, descending, idx + 1))

reverse(ps) == [i \in 1..Len(ps) |-> ps[Len(ps) + 1 - i]]

RECURSIVE insertionPoint(_, _, _, _)
\* The binary search of the insertion sort, with left and right counted from 0.
insertionPoint(ps, pivot, left, right) ==
  IF left >= right THEN left
  ELSE LET mid == left + ((right - left) \div 2)
       IN IF compare(pivot, ps[mid + 1]) < 0
            THEN insertionPoint(ps, pivot, left, mid)
          ELSE insertionPoint(ps, pivot, mid + 1, right)

RECURSIVE insertFrom(_, _)
\* The binary insertion sort of the elements from start on (counted from 1)
\* into the sorted ones before them.
insertFrom(ps, start) ==
  IF start > Len(ps) THEN ps
  ELSE LET left == insertionPoint(ps, ps[start], 0, start - 1)
       IN insertFrom(SubSeq(ps, 1, left) \o <<ps[start]>> \o SubSeq(ps, left + 1, start - 1)
                       \o SubSeq(ps, start + 1, Len(ps)),
                     start + 1)

\* projects.sort(...) as the engine sorts a short array: the run at the head
\* is found, reversed if it descends strictly, and the rest is inserted.
sortProjects(ps) ==
  IF Len(ps) < 2 THEN ps
  ELSE LET descending == compare(ps[2], ps[1]) < 0
           last == runEnd(ps, descending, 3)
           made == IF descending THEN reverse(SubSeq(ps, 1, last)) \o SubSeq(ps, last + 1, Len(ps))
                   ELSE ps
       IN insertFrom(made, last + 1)

ListProjects(r) ==
  /\ Receive(r, [Idle EXCEPT !.op = "list", !.pc = "scan"])
  /\ UNCHANGED <<fs, now, uuids, issued, content, extracted, deleted, alive>>

\* readdir, the loop, the sort and res.json({ projects, total }).
ListProjectsScan(r) ==
  /\ req[r].op = "list" /\ req[r].pc = "scan"
  /\ \E projectDirs \in Orders(readdir(fs, PROJECTS_DIR)) :
       LET projects == sortProjects(collect(fs, projectDirs))
       IN req' = [req EXCEPT ![r] =
            [respond(r, 200, JsonBody("projects", [projects |-> projects, total |-> Len(projects)]))
               EXCEPT !.order = projectDirs]]
  /\ UNCHANGED <<fs, now, uuids, issued, started, content, extracted, deleted, alive>>

(***************************************************************************)
(* The extraction on its own: any answer of up to MaxContentLen tokens.    *)
(***************************************************************************)
ContentTokens == {FenceJson, Fence, WS, "x", "{", "}", Quote, "null", "D1"}

Contents == UNION {[1..n -> ContentTokens] : n \in 0..MaxContentLen}

Pending == [state |-> "pending", ok |-> FALSE, value |-> [t |-> "null"], candidate |-> <<>>]

\* From `const content = response.choices[0].message.content` to the return
\* or the throw of generateProjectStructure.
generateProjectStructure ==
  /\ extracted.state = "pending"
  /\ extracted' = [state |-> "done", ok |-> extractJson(content).ok,
                   value |-> extractJson(content).value,
                   candidate |-> jsonContent(content)]
  /\ UNCHANGED <<fs, req, now, uuids, issued, started, content, deleted, alive>>

(***************************************************************************)
(* The initial states and the specifications.                              *)
(***************************************************************************)

\* ensureDirectories(): the storage root exists.
EmptyStore == mkdir([q \in {} |-> DirNode], PROJECTS_DIR)

\* The disk as an earlier run left it: one project, generated from D1.
EarlierStore ==
  LET projectPath == pathJoin(PROJECTS_DIR, <<EarlierId>>)
      made == createProjectFiles(EmptyStore, EarlierId, DescriptorOf("D1").fileTree).fs
      meta == writeFile(made, pathJoin(projectPath, <<"project-metadata.json">>),
                        JsonFile(metadataOf(EarlierId, Prompt, Model, 0, "D1")))
  IN writeFile(meta, pathJoin(projectPath, <<"README.md">>), TextFile(readmeContent("D1")))

\* The server starts over an empty root, over the project of an earlier run,
\* or after an earlier run in which that project was deleted again.
Init ==
  /\ \E earlier \in {"none", "kept", "deleted"} :
       /\ fs = IF earlier = "kept" THEN EarlierStore ELSE EmptyStore
       /\ issued = IF earlier = "none" THEN {} ELSE {EarlierId}
       /\ deleted = IF earlier = "deleted" THEN {EarlierId} ELSE {}
  /\ alive = TRUE
  /\ req = [r \in Slots |-> Idle]
  /\ now = 0
  /\ uuids = 0
  /\ started = 0
  /\ content = <<>>
  /\ extracted = Pending

Next ==
  \/ \E r \in Slots :
       \/ Generate(r) \/ GenerateProvider(r) \/ GenerateMaterialize(r)
       \/ GenerateMetadata(r) \/ GenerateReadme(r)
       \/ GetFile(r) \/ GetFileStat(r) \/ GetFileRead(r)
       \/ UpdateFile(r) \/ UpdateFileMkdir(r) \/ UpdateFileWrite(r)
       \/ Enhance(r) \/ Rewrite(r) \/ EditRead(r) \/ EditProvider(r)
       \/ EditBackup(r) \/ EditReplace(r)
       \/ Download(r) \/ DownloadAccess(r) \/ DownloadOpen(r) \/ DownloadArchive(r)
       \/ DownloadSend(r) \/ DownloadUnlink(r)
       \/ DeleteProject(r) \/ DeleteProjectRm(r)
       \/ Chat(r) \/ ChatProvider(r)
       \/ GetProject(r) \/ GetProjectRead(r) \/ GetProjectScan(r)
       \/ ListProjects(r) \/ ListProjectsScan(r)
       \/ ChatStream(r) \/ ChatStreamHead(r) \/ ChatStreamProvider(r)
       \/ ChatStreamPull(r) \/ ChatStreamEnd(r)
       \/ UpdateFileAcross(r) \/ ClientDisconnect(r)
  \/ Tick

Spec == Init /\ [][Next]_vars

\* Clients that only generate projects and read their files.
GenerateNext ==
  \E r \in Slots :
    \/ Generate(r) \/ GenerateProvider(r) \/ GenerateMaterialize(r)
    \/ GenerateMetadata(r) \/ GenerateReadme(r)
    \/ GetFile(r) \/ GetFileStat(r) \/ GetFileRead(r)
    \/ GetProject(r) \/ GetProjectRead(r) \/ GetProjectScan(r)

GenerateSpec == Init /\ [][GenerateNext]_vars

\* Clients that only read, update, enhance and rewrite files and delete projects.
EditNext ==
  \/ \E r \in Slots :
       \/ GetFile(r) \/ GetFileStat(r) \/ GetFileRead(r)
       \/ UpdateFile(r) \/ UpdateFileMkdir(r) \/ UpdateFileWrite(r)
       \/ Enhance(r) \/ Rewrite(r) \/ EditRead(r) \/ EditProvider(r)
       \/ EditBackup(r) \/ EditReplace(r)
       \/ DeleteProject(r) \/ DeleteProjectRm(r)
  \/ Tick

EditSpec == Init /\ [][EditNext]_vars

\* Clients that only read and update files and delete projects.
FileNext ==
  \E r \in Slots :
    \/ GetFile(r) \/ GetFileStat(r) \/ GetFileRead(r)
    \/ UpdateFile(r) \/ UpdateFileMkdir(r) \/ UpdateFileWrite(r)
    \/ DeleteProject(r) \/ DeleteProjectRm(r)

FileSpec == Init /\ [][FileNext]_vars

\* One client that sends its next request when the last one was answered.
SequentialNext ==
  \/ \E r \in {1} :
       \/ GetFile(r) \/ GetFileStat(r) \/ GetFileRead(r)
       \/ UpdateFile(r) \/ UpdateFileMkdir(r) \/ UpdateFileWrite(r)
       \/ Enhance(r) \/ Rewrite(r) \/ EditRead(r) \/ EditProvider(r)
       \/ EditBackup(r) \/ EditReplace(r)
       \/ DeleteProject(r) \/ DeleteProjectRm(r)
  \/ Tick

SequentialSpec == Init /\ [][SequentialNext]_vars

\* One client at a time, over the requests that carry a required field.
RequiredNext ==
  \E r \in {1} :
    \/ Generate(r) \/ GenerateProvider(r) \/ GenerateMaterialize(r)
    \/ GenerateMetadata(r) \/ GenerateReadme(r)
    \/ UpdateFile(r) \/ UpdateFileMkdir(r) \/ UpdateFileWrite(r)
    \/ Enhance(r) \/ Rewrite(r) \/ EditRead(r) \/ EditProvider(r)
    \/ EditBackup(r) \/ EditReplace(r)
    \/ Chat(r) \/ ChatProvider(r)
    \/ ChatStream(r) \/ ChatStreamHead(r) \/ ChatStreamProvider(r)
    \/ ChatStreamPull(r) \/ ChatStreamEnd(r)

RequiredSpec == Init /\ [][RequiredNext]_vars

\* Clients that update, read and delete files of projects at the same time,
\* with any path the route accepts.
IsolationNext ==
  \E r \in Slots :
    \/ UpdateFile(r) \/ UpdateFileAcross(r) \/ UpdateFileMkdir(r) \/ UpdateFileWrite(r)
    \/ GetFile(r) \/ GetFileStat(r) \/ GetFileRead(r)
    \/ DeleteProject(r) \/ DeleteProjectRm(r)

IsolationSpec == Init /\ [][IsolationNext]_vars

\* Clients that enhance and rewrite files at the same time.
RaceNext ==
  \E r \in Slots :
    \/ Enhance(r) \/ Rewrite(r) \/ EditRead(r) \/ EditProvider(r)
    \/ EditBackup(r) \/ EditReplace(r)

RaceSpec == Init /\ [][RaceNext]_vars

\* Clients of the streaming chat.
StreamNext ==
  \E r \in Slots :
    \/ ChatStream(r) \/ ChatStreamHead(r) \/ ChatStreamProvider(r)
    \/ ChatStreamPull(r) \/ ChatStreamEnd(r) \/ ClientDisconnect(r)

StreamSpec == Init /\ [][StreamNext]_vars

\* Clients that generate projects, read them and list them at the same time.
DiscardNext ==
  \E r \in Slots :
    \/ Generate(r) \/ GenerateProvider(r) \/ GenerateMaterialize(r)
    \/ GenerateMetadata(r) \/ GenerateReadme(r)
    \/ GetProject(r) \/ GetProjectRead(r) \/ GetProjectScan(r)
    \/ ListProjects(r) \/ ListProjectsScan(r)

DiscardSpec == Init /\ [][DiscardNext]_vars

\* Clients that only download and delete projects.
DownloadNext ==
  \E r \in Slots :
    \/ Download(r) \/ DownloadAccess(r) \/ DownloadOpen(r) \/ DownloadArchive(r)
    \/ DownloadSend(r) \/ DownloadUnlink(r)
    \/ DeleteProject(r) \/ DeleteProjectRm(r)

DownloadSpec == Init /\ [][DownloadNext]_vars

\* One client that updates and reads files, reads and lists projects and
\* deletes them, one request after the other.
ProjectNext ==
  \E r \in {1} :
    \/ UpdateFile(r) \/ UpdateFileMkdir(r) \/ UpdateFileWrite(r)
    \/ GetFile(r) \/ GetFileStat(r) \/ GetFileRead(r)
    \/ GetProject(r) \/ GetProjectRead(r) \/ GetProjectScan(r)
    \/ ListProjects(r) \/ ListProjectsScan(r)
    \/ DeleteProject(r) \/ DeleteProjectRm(r)

ProjectSpec == Init /\ [][ProjectNext]_vars

ExtractInit ==
  /\ fs = EmptyStore
  /\ issued = {}
  /\ req = [r \in Slots |-> Idle]
  /\ now = 0
  /\ uuids = 0
  /\ started = 0
  /\ content \in Contents
  /\ extracted = Pending
  /\ deleted = {}
  /\ alive = TRUE

ExtractNext == generateProjectStructure

ExtractSpec == ExtractInit /\ [][ExtractNext]_vars

(***************************************************************************)
(* The properties.                                                         *)
(***************************************************************************)

\* The paths a step creates or changes.
touched == {q \in DOMAIN fs' : q \notin DOMAIN fs \/ fs'[q] # fs[q]}

\* The request that takes the step.
acts(r) == req'[r] # req[r]

\* The file entries of the descriptor a generate request materializes.
fileEntriesOf(r) ==
  LET tree == DescriptorOf(projectDataOf(extractJson(req[r].answer).value).token).fileTree
  IN {tree[k] : k \in {i \in 1..Len(tree) : tree[i].type = "file"}}

\* C1: no step of a create (POST /api/generate) creates or changes a file or
\* directory outside the root directory of its own project; an entry whose
\* path holds ".." is never written there.
CreateStaysInProjectRoot ==
  [][\A r \in Slots :
       (req[r].op = "generate" /\ acts(r)) =>
         \A q \in touched : IsPrefix(projectPathOf(r), q)]_vars

\* C2: when a create reports success, every file entry of the descriptor's
\* fileTree is read back at its path with exactly the entry's content (the
\* empty string when the entry has none).
CreatedFilesReadBack ==
  [][\A r \in Slots :
       (req[r].op = "generate" /\ acts(r) /\ req'[r].status = 200) =>
         \A e \in fileEntriesOf(r) :
           LET fullPath == pathJoin(PROJECTS_DIR, <<req[r].id>> \o e.path)
           IN /\ readFileOk(fs', fullPath)
              /\ fs'[fullPath] = TextFile(IF e.hasContent THEN e.content ELSE <<"">>)]_vars

\* C3: the metadata record a create writes holds the generated identifier that
\* names the project directory and is returned as projectId, and the prompt
\* and the model of the request, whatever keys the descriptor has.
MetadataKeepsIdentity ==
  [][\A r \in Slots :
       (req[r].op = "generate" /\ req[r].pc = "metadata" /\ acts(r) /\ fs' # fs) =>
         LET written == fs'[pathJoin(projectPathOf(r), <<"project-metadata.json">>)].json
         IN written.id = req[r].id /\ written.prompt = Prompt /\ written.model = Model]_vars

\* C4: an enhance call never overwrites a backup an earlier call wrote: the
\* file at its backup path, if there is one, still has its content after the
\* backup step, so the earlier pre-enhance version stays recoverable.
EnhanceKeepsEarlierBackup ==
  [][\A r \in Slots :
       (req[r].op = "enhance" /\ req[r].pc = "backup" /\ acts(r)) =>
         (Exists(fs, req[r].bak) => fs'[req[r].bak] = fs[req[r].bak])]_vars

\* C5: when an enhance or rewrite answers with success, the live path is still
\* as it was read (the content the last writeFile left), the backup path is
\* another path and already holds that content before the live file is
\* overwritten, and after the step the live path holds the new content and the
\* backup the previous one.
BackupThenReplace ==
  [][\A r \in Slots :
       (req[r].op \in {"enhance", "rewrite"} /\ req[r].pc = "replace" /\ acts(r)
          /\ req'[r].status = 200) =>
         /\ req[r].bak # fullPathOf(r)
         /\ fs[fullPathOf(r)] = req[r].cur
         /\ IsFile(fs, req[r].bak) /\ fs[req[r].bak] = req[r].cur
         /\ fs'[fullPathOf(r)] = TextFile(req[r].new)
         /\ fs'[req[r].bak] = req[r].cur
         /\ req'[r].out = TextFile(req[r].new)]_vars

\* C5, the case: a file written with "y" by an update was enhanced or
\* rewritten with success; the backup holds "y" and the live path the answer.
BackupHoldsWrittenContent ==
  \E r \in Slots :
    /\ req[r].op \in {"enhance", "rewrite"} /\ req[r].pc = "done" /\ req[r].status = 200
    /\ req[r].cur = TextFile(<<"y">>)
    /\ IsFile(fs, req[r].bak) /\ fs[req[r].bak] = TextFile(<<"y">>)
    /\ fs[fullPathOf(r)] = TextFile(req[r].new)
    /\ req[r].new # <<"y">>

\* C6 as stated: a read of a file answers 404 whenever the path does not exist
\* and whenever it is a directory.
ReadFileDirectoryNotFound ==
  [][\A r \in Slots :
       (req[r].op = "file" /\ req[r].pc = "stat" /\ acts(r)
          /\ (~Exists(fs, fullPathOf(r)) \/ IsDir(fs, fullPathOf(r)))) =>
         (req'[r].pc = "done" /\ req'[r].status = 404)]_vars

\* C6, amended: a read of a file answers 404 when the path does not exist (or
\* can no longer be read), 400 when the stat finds a directory, and 200 with
\* the content only for an existing regular file.
ReadFileAnswers ==
  [][\A r \in Slots :
       (req[r].op = "file" /\ req[r].pc \in {"stat", "read"} /\ acts(r)) =>
         /\ (req[r].pc = "stat" /\ ~Exists(fs, fullPathOf(r))) =>
              (req'[r].pc = "done" /\ req'[r].status = 404)
         /\ (req[r].pc = "stat" /\ IsDir(fs, fullPathOf(r))) =>
              (req'[r].pc = "done" /\ req'[r].status = 400)
         /\ (req[r].pc = "read" /\ ~IsFile(fs, fullPathOf(r))) =>
              (req'[r].pc = "done" /\ req'[r].status = 404)
         /\ (req'[r].pc = "done" /\ req'[r].status = 200) =>
              (IsFile(fs, fullPathOf(r)) /\ req'[r].out = fs[fullPathOf(r)])
         /\ req'[r].pc = "done" => req'[r].status \in {200, 400, 404}]_vars

\* C6, the case: a read of a path that is a directory was answered 400.
ReadOfDirectoryAnswered ==
  \E r \in Slots :
    /\ req[r].op = "file" /\ req[r].pc = "done"
    /\ IsDir(fs, fullPathOf(r))
    /\ req[r].status = 400

\* C7: a request whose call of the provider failed is answered 500, in
\* generate, enhance, rewrite and chat alike.
ProviderFailureAnswers500 ==
  \A r \in Slots : (req[r].pc = "done" /\ req[r].failed) => req[r].status = 500

\* C8: when a download request finishes after its archive was made, with the
\* transfer succeeded or failed, no archive file of that request is left in
\* the storage root.
ArchiveDeletedAfterSend ==
  [][\A r \in Slots :
       (req[r].op = "download" /\ req[r].pc \in {"send", "unlink"} /\ acts(r)
          /\ req'[r].pc = "done") =>
         ~Exists(fs', zipPathOf(r))]_vars

\* C9: the text that is parsed is the interior of the first json-tagged fenced
\* block if there is one; else the interior of the first fenced block of any
\* kind if there is one; else, no fenced block being complete, the span from
\* the first "{" to the last "}".  Stated for the texts in which a json-tagged
\* fence only stands where a block opens (after an even number of fences), so
\* that what the blocks of the text are is beyond doubt.
CandidateByPrecedence ==
  (/\ extracted.state = "done"
   /\ \A i \in 1..Len(content) :
        content[i] = FenceJson =>
          Cardinality({k \in 1..(i - 1) : content[k] \in {Fence, FenceJson}}) % 2 = 0) =>
    LET chosen == IF matchJsonFence(content).found THEN matchJsonFence(content)
                  ELSE IF matchFence(content).found THEN matchFence(content)
                  ELSE matchBraces(content)
    IN chosen.found => extracted.candidate = chosen.group

\* C10: on a text with no "{...}" span and no fence the extraction fails; it
\* returns no value.
NoJsonLookingTextFails ==
  (extracted.state = "done" /\ ~matchBraces(content).found /\ ~includesFence(content)) =>
    ~extracted.ok

(***************************************************************************)
(* The same answer sent bare and inside a json-tagged fence.               *)
(***************************************************************************)

\* The tokens between the braces of an answer that is meant to be an object.
InnerTokens == {Quote, Fence, WS, "x", "D1", "{", "}"}

\* Answers that open and close with a brace.
BracedTexts ==
  {<<"{">> \o m \o <<"}">> : m \in UNION {[1..n -> InnerTokens] : n \in 0..(MaxContentLen - 1)}}

\* The text with a "```json" line before it and a "```" line after it.
fenced(t) == <<FenceJson, WS>> \o t \o <<WS, Fence>>

\* generateProjectStructure on the provider's bare answer.
generatePlain ==
  /\ extracted.state = "pending"
  /\ extracted' = [state |-> "plain", ok |-> extractJson(content).ok,
                   value |-> extractJson(content).value,
                   candidate |-> jsonContent(content)]
  /\ UNCHANGED <<fs, req, now, uuids, issued, started, content, deleted, alive>>

\* generateProjectStructure on the same answer sent inside a json-tagged
\* fence; the result for the bare answer is kept beside it.
generateFenced ==
  /\ extracted.state = "plain"
  /\ content' = fenced(content)
  /\ extracted' = [state |-> "fenced", ok |-> extractJson(fenced(content)).ok,
                   value |-> extractJson(fenced(content)).value,
                   candidate |-> jsonContent(fenced(content)),
                   text |-> content, plain |-> extracted]
  /\ UNCHANGED <<fs, req, now, uuids, issued, started, deleted, alive>>

FencedInit ==
  /\ fs = EmptyStore
  /\ issued = {}
  /\ req = [r \in Slots |-> Idle]
  /\ now = 0
  /\ uuids = 0
  /\ started = 0
  /\ content \in BracedTexts
  /\ extracted = Pending
  /\ deleted = {}
  /\ alive = TRUE

FencedNext == generatePlain \/ generateFenced

FencedSpec == FencedInit /\ [][FencedNext]_vars

\* C11: for a text that is a JSON object, the extraction from the text inside
\* a json-tagged fence succeeds and returns the object that the extraction
\* from the bare text returns, which is the object the text denotes.
FencedSameAsPlain ==
  (extracted.state = "fenced" /\ JSONparse(extracted.text).ok
     /\ JSONparse(extracted.text).val.t = "object") =>
    /\ extracted.plain.ok /\ extracted.plain.value = JSONparse(extracted.text).val
    /\ extracted.ok /\ extracted.value = extracted.plain.value

(***************************************************************************)
(* The scan of a generated project.                                        *)
(***************************************************************************)

\* The fileTree of the descriptor a stored metadata record was made from.
storedTree(node) == DescriptorOf(parseStored(node).value.descriptor).fileTree

\* A fileTree whose keys stay below the project root.
wellFormed(tree) == \A k \in 1..Len(tree) : \A i \in 1..Len(tree[k].path) : tree[k].path[i] \notin {"..", "."}

\* C12 as stated: the paths a scan of a generated project reports include
\* every key of the descriptor's fileTree, as the key is written, and beyond
\* the keys only parent directories of keys.
ScanReproducesKeys ==
  [][\A r \in Slots :
       (req[r].op = "get" /\ req[r].pc = "scan" /\ acts(r) /\ req'[r].status = 200
          /\ req[r].cur.kind = "json" /\ wellFormed(storedTree(req[r].cur))) =>
         LET tree == storedTree(req[r].cur)
             keys == {tree[k].path : k \in 1..Len(tree)}
             scan == req'[r].out.json.currentFileTree
         IN /\ keys \subseteq scan
            /\ \A q \in scan \ keys : \E k \in keys : IsPrefix(q, k) /\ q # k]_vars

\* C12, amended: the paths a scan of a generated project reports include the
\* normalized path of every key of the descriptor's fileTree (a directory
\* marker without its trailing slash), and beyond them only parent directories
\* of keys and the two files the create request adds, project-metadata.json
\* and README.md.
ScanCoversNormalizedKeys ==
  [][\A r \in Slots :
       (req[r].op = "get" /\ req[r].pc = "scan" /\ acts(r) /\ req'[r].status = 200
          /\ req[r].cur.kind = "json" /\ wellFormed(storedTree(req[r].cur))) =>
         LET tree == storedTree(req[r].cur)
             keys == {normalizeFrom(<<>>, tree[k].path) : k \in 1..Len(tree)}
             scan == req'[r].out.json.currentFileTree
         IN /\ keys \subseteq scan
            /\ \A q \in scan \ keys :
                 \/ \E k \in keys : IsPrefix(q, k) /\ q # k
                 \/ q \in {<<"project-metadata.json">>, <<"README.md">>}]_vars

\* C12, the case: a project made by a create request in this run was scanned;
\* the scan reports its directory marker, its file and the metadata file.
GeneratedProjectScanned ==
  \E r \in Slots :
    /\ req[r].op = "get" /\ req[r].pc = "done" /\ req[r].status = 200
    /\ req[r].id = Uuid(1)
    /\ {<<"src">>, <<"src", "app.js">>, <<"project-metadata.json">>}
         \subseteq req[r].out.json.currentFileTree

(***************************************************************************)
(* The listing on its own: the storage root holds any mix of projects.     *)
(***************************************************************************)

ListNames == {Uuid(0), Uuid(1), Uuid(2)}

\* What a child directory of the root may be: a generated project with its
\* timestamp; one whose metadata file was overwritten through the file
\* endpoint (with text that is no JSON, with "null", with "{}"); one made by
\* the file endpoint alone, without a metadata file.
ChildKinds ==
  {[kind |-> k, at |-> 0] : k \in {"absent", "missing", "corrupt", "null", "undated"}}
    \cup {[kind |-> "good", at |-> n] : n \in 0..MaxNow}

\* What is at <first name>.zip: nothing, the archive a download left, or a
\* directory the file endpoint made, holding a metadata file "{}".
ZipKinds == {"absent", "archive", "directory"}

RECURSIVE withChildren(_, _, _)
withChildren(f, names, kinds) ==
  IF names = {} THEN f
  ELSE LET name == CHOOSE n \in names : TRUE
           projectPath == pathJoin(PROJECTS_DIR, <<name>>)
           metadataPath == pathJoin(projectPath, <<"project-metadata.json">>)
           k == kinds[name]
           g == IF k.kind = "absent" THEN f
                ELSE IF k.kind = "missing" THEN mkdir(f, projectPath)
                ELSE IF k.kind = "corrupt"
                  THEN writeFile(mkdir(f, projectPath), metadataPath, TextFile(<<"y">>))
                ELSE IF k.kind = "null"
                  THEN writeFile(mkdir(f, projectPath), metadataPath, TextFile(<<"null">>))
                ELSE IF k.kind = "undated"
                  THEN writeFile(mkdir(f, projectPath), metadataPath, TextFile(<<"{}">>))
                ELSE writeFile(createProjectFiles(f, name, DescriptorOf("D1").fileTree).fs,
                               metadataPath, JsonFile(metadataOf(name, Prompt, Model, k.at, "D1")))
       IN withChildren(g, names \ {name}, kinds)

storeOf(kinds, zip) ==
  LET f == withChildren(EmptyStore, ListNames, kinds)
      zipPath == pathJoin(PROJECTS_DIR, <<Uuid(0) \o ".zip">>)
  IN IF zip = "absent" THEN f
     ELSE IF zip = "archive" THEN writeFile(f, zipPath, ZipFile(<<>>))
     ELSE writeFile(mkdir(f, zipPath), zipPath \o <<"project-metadata.json">>, TextFile(<<"{}">>))

ListInit ==
  /\ fs \in {storeOf(kinds, zip) : kinds \in [ListNames -> ChildKinds], zip \in ZipKinds}
  /\ issued = {}
  /\ req = [r \in Slots |-> Idle]
  /\ now = 0
  /\ uuids = 0
  /\ started = 0
  /\ content = <<>>
  /\ extracted = Pending
  /\ deleted = {}
  /\ alive = TRUE

\* One client that lists.
ListNext == \E r \in {1} : ListProjects(r) \/ ListProjectsScan(r)

ListSpec == ListInit /\ [][ListNext]_vars

\* C13: the listing holds the summaries of the scan, and of any two of them
\* with a timestamp the one with the later timestamp comes first, and two with
\* the same timestamp stand as their directories stood in the scan.
ListSortedNewestFirst ==
  [][\A r \in Slots :
       (req[r].op = "list" /\ req[r].pc = "scan" /\ acts(r)) =>
         LET ps == req'[r].out.json.projects
             scanned == collect(fs, req'[r].order)
             at(x) == CHOOSE i \in 1..Len(scanned) : scanned[i] = x
         IN /\ Len(ps) = Len(scanned)
            /\ \A x \in {scanned[i] : i \in 1..Len(scanned)} :
                 Cardinality({i \in 1..Len(ps) : ps[i] = x})
                   = Cardinality({i \in 1..Len(scanned) : scanned[i] = x})
            /\ \A i, j \in 1..Len(ps) :
                 (i < j /\ ps[i].generated.valid /\ ps[j].generated.valid) =>
                   /\ ps[i].generated.at >= ps[j].generated.at
                   /\ ps[i].generated.at = ps[j].generated.at => at(ps[i]) < at(ps[j])]_vars

\* C14 as stated: the listing is answered 200 with exactly one summary for
\* every child of the root that has a metadata file that can be read and
\* parsed, and total is their number.
ListOnePerParseableChild ==
  [][\A r \in Slots :
       (req[r].op = "list" /\ req[r].pc = "scan" /\ acts(r)) =>
         LET body == req'[r].out.json
             parseable == {d \in readdir(fs, PROJECTS_DIR) :
                             /\ readFileOk(fs, pathJoin(PROJECTS_DIR, <<d, "project-metadata.json">>))
                             /\ parseStored(fs[pathJoin(PROJECTS_DIR, <<d, "project-metadata.json">>)]).ok}
         IN /\ req'[r].status = 200
            /\ Len(body.projects) = Cardinality(parseable)
            /\ body.total = Len(body.projects)]_vars

\* C14, amended: the listing is answered 200 whatever the root holds, with
\* exactly one summary for every child whose name does not end in ".zip" and
\* whose metadata file can be read and parses to a value other than null; every
\* other child is passed over, and total is the number of summaries.
ListOnePerUsableChild ==
  [][\A r \in Slots :
       (req[r].op = "list" /\ req[r].pc = "scan" /\ acts(r)) =>
         LET body == req'[r].out.json
             stored(d) == fs[pathJoin(PROJECTS_DIR, <<d, "project-metadata.json">>)]
             usable == {d \in readdir(fs, PROJECTS_DIR) :
                          /\ ~endsWithZip(d)
                          /\ readFileOk(fs, pathJoin(PROJECTS_DIR, <<d, "project-metadata.json">>))
                          /\ parseStored(stored(d)).ok /\ ~parseStored(stored(d)).isNull}
         IN /\ req'[r].status = 200
            /\ Len(body.projects) = Cardinality(usable)
            /\ \A d \in usable :
                 Cardinality({i \in 1..Len(body.projects) :
                                body.projects[i] = summaryOf(parseStored(stored(d)).value)})
                   = Cardinality({e \in usable : summaryOf(parseStored(stored(e)).value)
                                                   = summaryOf(parseStored(stored(d)).value)})
            /\ body.total = Len(body.projects)]_vars

\* C14, the case: a listing was answered over a root that holds a project
\* without a metadata file, one with a corrupt metadata file and a good one.
ListedPastBadEntries ==
  \E r \in Slots :
    /\ req[r].op = "list" /\ req[r].pc = "done" /\ req[r].status = 200
    /\ \E a, b, c \in ListNames :
         /\ IsDir(fs, pathJoin(PROJECTS_DIR, <<a>>))
         /\ ~Exists(fs, pathJoin(PROJECTS_DIR, <<a, "project-metadata.json">>))
         /\ IsFile(fs, pathJoin(PROJECTS_DIR, <<b, "project-metadata.json">>))
         /\ ~parseStored(fs[pathJoin(PROJECTS_DIR, <<b, "project-metadata.json">>)]).ok
         /\ req[r].order[1] = a /\ req[r].order[2] = b /\ req[r].order[Len(req[r].order)] = c
         /\ req[r].out.json.total = 1
         /\ req[r].out.json.projects[1].id = c

(***************************************************************************)
(* Reading and listing projects after a deletion.                          *)
(***************************************************************************)

metadataPathOf(id) == pathJoin(PROJECTS_DIR, <<id, "project-metadata.json">>)

\* C15 as stated: a read of a project is answered 404 whenever there is no
\* metadata file under its directory; and once the deletion of an identifier
\* has completed (no create ever makes the identifier again), every read of it
\* is answered 404 and no listing holds a summary with it.
GoneAfterDelete ==
  [][\A r \in Slots : acts(r) =>
       /\ (req[r].op = "get" /\ req[r].pc = "read" /\ ~IsFile(fs, metadataPathOf(req[r].id))) =>
            (req'[r].pc = "done" /\ req'[r].status = 404)
       /\ (req[r].op = "get" /\ req[r].pc \in {"read", "scan"} /\ req[r].id \in deleted
             /\ req'[r].pc = "done") =>
            req'[r].status = 404
       /\ (req[r].op = "list" /\ req[r].pc = "scan") =>
            \A i \in 1..Len(req'[r].out.json.projects) :
              req'[r].out.json.projects[i].id \notin deleted]_vars

\* C15, amended: a read of a project is answered 404 whenever there is no
\* metadata file under its directory; a deletion is answered 200 and leaves
\* nothing at or below the project's directory; a listing holds only summaries
\* read from metadata files that exist.  So from the completion of a deletion
\* on, for as long as no metadata file is written under the identifier again
\* (a create never reuses it, an update of project-metadata.json can), reads
\* of it are answered 404 and listings hold nothing read from its directory.
GoneUntilMetadataWritten ==
  [][\A r \in Slots : acts(r) =>
       /\ (req[r].op = "get" /\ req[r].pc = "read" /\ ~IsFile(fs, metadataPathOf(req[r].id))) =>
            (req'[r].pc = "done" /\ req'[r].status = 404)
       /\ (req[r].op = "delete" /\ req[r].pc = "rm") =>
            /\ req'[r].pc = "done" /\ req'[r].status = 200
            /\ \A q \in DOMAIN fs' : ~IsPrefix(projectPathOf(r), q)
            /\ req[r].id \in deleted'
       /\ (req[r].op = "list" /\ req[r].pc = "scan") =>
            \A i \in 1..Len(req'[r].out.json.projects) :
              \E d \in readdir(fs, PROJECTS_DIR) :
                /\ IsFile(fs, metadataPathOf(d))
                /\ parseStored(fs[metadataPathOf(d)]).ok
                /\ req'[r].out.json.projects[i] = summaryOf(parseStored(fs[metadataPathOf(d)]).value)]_vars

\* C15, the case: the deletion of the earlier project has completed, nothing
\* is left of it, and a read of it that came later was answered 404.
ReadAfterDelete ==
  \E r \in Slots :
    /\ req[r].op = "get" /\ req[r].pc = "done" /\ req[r].status = 404
    /\ req[r].id = EarlierId /\ req[r].id \in deleted
    /\ ~Exists(fs, projectPathOf(r))
    /\ started = 2

\* C16: a deletion is answered 200 whether or not the project's directory
\* exists; where there is none it changes nothing in the store; and the store
\* it leaves is the store a second deletion of the same identifier leaves.
DeleteIdempotent ==
  [][\A r \in Slots :
       (req[r].op = "delete" /\ req[r].pc = "rm" /\ acts(r)) =>
         /\ req'[r].pc = "done" /\ req'[r].status = 200
         /\ ~Exists(fs, projectPathOf(r)) => fs' = fs
         /\ ~Exists(fs', projectPathOf(r))
         /\ rm(fs', projectPathOf(r)) = fs']_vars

\* C16, the case: the deletion of an identifier that has no directory was
\* answered 200, and the store is as the earlier run left it.
DeletedNothing ==
  \E r \in Slots :
    /\ req[r].op = "delete" /\ req[r].pc = "done" /\ req[r].status = 200
    /\ req[r].id = UnknownId /\ UnknownId \in deleted
    /\ fs = EarlierStore

\* C17: an update that is answered 200 leaves its content at the path, in
\* place of what was there, with the parent directories made; a read that is
\* answered 200 returns what is stored at the path at that moment; and what is
\* stored at a path only changes by an update of that path or the deletion of
\* its project.  So every read returns the content of the last update until
\* the path is written or removed again.
WriteReadRoundTrip ==
  [][\A r \in Slots : acts(r) =>
       /\ (req[r].op = "update" /\ req[r].pc = "write" /\ req'[r].status = 200) =>
            /\ fs'[fullPathOf(r)] = TextFile(req[r].data)
            /\ IsDir(fs', pathDirname(fullPathOf(r)))
       /\ (req[r].op = "file" /\ req[r].pc = "read" /\ req'[r].status = 200) =>
            req'[r].out = fs[fullPathOf(r)]
       /\ \A q \in DOMAIN fs :
            (IsFile(fs, q) /\ (q \notin DOMAIN fs' \/ fs'[q] # fs[q])) =>
              \/ req[r].op = "update" /\ req[r].pc = "write" /\ q = fullPathOf(r)
              \/ req[r].op = "delete" /\ req[r].pc = "rm" /\ IsPrefix(projectPathOf(r), q)]_vars

\* C17, the case: a file written by an update into a project that had no
\* directory was read back with the content of the update.
ReadBackWritten ==
  \E r \in Slots :
    /\ req[r].op = "file" /\ req[r].pc = "done" /\ req[r].status = 200
    /\ req[r].id = UnknownId /\ req[r].path = <<"src", "app.js">>
    /\ req[r].out = TextFile(<<"y">>)
    /\ fs[fullPathOf(r)] = TextFile(<<"y">>)

\* C18 as stated: no step of an update, an enhance or a rewrite changes the
\* content of a project's metadata file.
MetadataNeverEdited ==
  [][\A r \in Slots :
       (req[r].op \in {"update", "enhance", "rewrite"} /\ acts(r)) =>
         \A id \in ProjectNames :
           IsFile(fs, metadataPathOf(id)) =>
             (IsFile(fs', metadataPathOf(id)) /\ fs'[metadataPathOf(id)] = fs[metadataPathOf(id)])]_vars

\* C18, amended: no step of an update, an enhance or a rewrite of any other
\* path changes the content of a project's metadata file; only a request
\* addressed to project-metadata.json itself overwrites it.
MetadataEditedOnlyDirectly ==
  [][\A r \in Slots :
       (req[r].op \in {"update", "enhance", "rewrite"} /\ acts(r)) =>
         \A id \in ProjectNames :
           (IsFile(fs, metadataPathOf(id)) /\ fullPathOf(r) # metadataPathOf(id)) =>
             (IsFile(fs', metadataPathOf(id)) /\ fs'[metadataPathOf(id)] = fs[metadataPathOf(id)])]_vars

\* C18, the case: a file of the earlier project was enhanced or rewritten with
\* success, and the project's metadata file is the record made at generation.
MetadataAfterEdit ==
  \E r \in Slots :
    /\ req[r].op \in {"enhance", "rewrite"} /\ req[r].pc = "done" /\ req[r].status = 200
    /\ req[r].id = EarlierId /\ req[r].path = <<"src", "app.js">>
    /\ fs[fullPathOf(r)] = TextFile(req[r].new) /\ req[r].new # <<"x">>
    /\ fs[metadataPathOf(EarlierId)] = JsonFile(metadataOf(EarlierId, Prompt, Model, 0, "D1"))

\* C19: no request calls the provider more than once, and a request whose
\* call of the provider failed is answered with an error status.
NoRetryAndFailureReported ==
  \A r \in Slots :
    /\ req[r].calls <= 1
    /\ req[r].failed => (req[r].pc = "done" /\ req[r].status >= 400)

\* The requests that carry a required field.
FieldOps == {"generate", "update", "enhance", "rewrite", "chat", "stream"}

\* C20: a request that arrives without its required field is answered with
\* 400 on arrival, having called the provider not once and with the store as
\* it was, and nothing further happens for it; an update whose content is the
\* empty string is not refused, it goes on and writes the empty content.
MissingFieldAnswered400 ==
  [][\A r \in Slots : acts(r) =>
       /\ (started' = started + 1 /\ req'[r].op \in FieldOps /\ ~req'[r].has) =>
            /\ req'[r].pc = "done" /\ req'[r].status = 400
            /\ req'[r].calls = 0
            /\ fs' = fs
       /\ (req[r].op \in FieldOps /\ ~req[r].has) => started' = started + 1
       /\ (started' = started + 1 /\ req'[r].op = "update" /\ req'[r].has) =>
            req'[r].pc = "mkdir" /\ req'[r].status # 400
       /\ (req[r].op = "update" /\ req[r].pc = "write" /\ req[r].data = <<"">>
             /\ writeFileOk(fs, fullPathOf(r))) =>
            /\ req'[r].status = 200
            /\ fs'[fullPathOf(r)] = TextFile(<<"">>)]_vars

\* C20, the case: an update with the empty string as its content was written,
\* and after it a chat/stream request without a message was answered with 400.
EmptyWrittenMissingRefused ==
  /\ fs # EmptyStore
  /\ pathJoin(PROJECTS_DIR, <<UnknownId, "src", "app.js">>) \in DOMAIN fs
  /\ fs[pathJoin(PROJECTS_DIR, <<UnknownId, "src", "app.js">>)] = TextFile(<<"">>)
  /\ req[1].op = "stream" /\ ~req[1].has
  /\ req[1].pc = "done" /\ req[1].status = 400 /\ req[1].calls = 0 /\ ~req[1].head

\* The project a path lies in: the segment below the storage root, for paths
\* below a project's directory.
projectOf(q) == q[Len(PROJECTS_DIR) + 1]
belowProject(q) == Len(q) > Len(PROJECTS_DIR) + 1 /\ IsPrefix(PROJECTS_DIR, q)

\* C21: requests on different projects do not interfere: a step of a request
\* on project A creates, changes and removes nothing below the directory of
\* another project, so the files of every project are those its own requests
\* left.
OtherProjectsUntouched ==
  [][\A r \in Slots : acts(r) =>
       \A q \in DOMAIN fs \cup DOMAIN fs' :
         (belowProject(q) /\ (q \notin DOMAIN fs \/ q \notin DOMAIN fs' \/ fs'[q] # fs[q]))
           => projectOf(q) = req[r].id]_vars

NoPullAfterDisconnect ==
  [][\A r \in Slots :
       (req[r].op = "stream" /\ req[r].pc = "stream" /\ req[r].gone)
         => req'[r].left = req[r].left]_vars

\* C24: in every endpoint a failure inside the handler is caught and answered:
\* no exception leaves a handler, no connection is reset under a request, and
\* the process keeps running.
NoExceptionEscapes ==
  /\ alive
  /\ \A r \in Slots : req[r].pc \notin {"escaped", "reset"}

(***************************************************************************)
(* The model names.  GroqClient.chat and chatStream call the provider with *)
(* AVAILABLE_MODELS[model] || model.                                       *)
(***************************************************************************)
MaxCalls == 2

AVAILABLE_MODELS ==
  [k \in {"llama-4-scout", "llama-3.3-70b", "mixtral-8x7b", "gemma2-9b"} |->
     CASE k = "llama-4-scout" -> "meta-llama/llama-4-scout-17b-16e-instruct"
       [] k = "llama-3.3-70b" -> "llama-3.3-70b-versatile"
       [] k = "mixtral-8x7b" -> "mixtral-8x7b-32768"
       [] k = "gemma2-9b" -> "gemma2-9b-it"]

\* A JavaScript value: a string, a function, an object, or undefined.
StringValue(t) == [kind |-> "string", text |-> t]
Undefined == [kind |-> "undefined", text |-> ""]

\* AVAILABLE_MODELS is an object literal: what it has no own key for is looked
\* up in Object.prototype.
ObjectPrototype ==
  [k \in {"constructor", "toString", "__proto__"} |->
     [kind |-> IF k = "__proto__" THEN "object" ELSE "function", text |-> k]]

\* AVAILABLE_MODELS[model]
memberOf(model) ==
  IF model \in DOMAIN AVAILABLE_MODELS THEN StringValue(AVAILABLE_MODELS[model])
  ELSE IF model \in DOMAIN ObjectPrototype THEN ObjectPrototype[model]
  ELSE Undefined

truthy(v) == v.kind \in {"function", "object"} \/ (v.kind = "string" /\ v.text # "")

\* AVAILABLE_MODELS[model] || model
resolveModel(model) == IF truthy(memberOf(model)) THEN memberOf(model) ELSE StringValue(model)

\* The names callers send: the short keys, provider identifiers, other names.
ModelNames ==
  DOMAIN AVAILABLE_MODELS \cup
  {"llama-3.3-70b-versatile", "gpt-x", "", "constructor", "toString", "__proto__"}

RECURSIVE SeqsUpTo(_, _)
SeqsUpTo(S, n) ==
  IF n = 0 THEN {<<>>}
  ELSE LET shorter == SeqsUpTo(S, n - 1)
       IN shorter \cup {Append(q, x) : q \in {t \in shorter : Len(t) = n - 1}, x \in S}

NoCalls == [state |-> "models", models |-> <<>>, given |-> <<>>]

\* A caller makes a few chat calls, one after the other, each with a model name.
ModelInit ==
  /\ fs = EmptyStore
  /\ issued = {}
  /\ req = [r \in Slots |-> Idle]
  /\ now = 0
  /\ uuids = 0
  /\ started = 0
  /\ content \in SeqsUpTo(ModelNames, MaxCalls) \ {<<>>}
  /\ extracted = NoCalls
  /\ deleted = {}
  /\ alive = TRUE

\* GroqClient.chat(model, messages): groq.chat.completions.create is called
\* with the resolved model.
chat ==
  /\ content # <<>>
  /\ extracted' = [extracted EXCEPT !.models = Append(@, Head(content)),
                                    !.given = Append(@, resolveModel(Head(content)))]
  /\ content' = Tail(content)
  /\ UNCHANGED <<fs, req, now, uuids, issued, started, deleted, alive>>

ModelNext == chat

ModelSpec == ModelInit /\ [][ModelNext]_vars

\* C25: the provider is called with the mapped identifier for a known short
\* key and with the name itself, unchanged, for every other name.
LookupWithPassThrough ==
  \A i \in 1..Len(extracted.given) :
    extracted.given[i] =
      IF extracted.models[i] \in DOMAIN AVAILABLE_MODELS
        THEN StringValue(AVAILABLE_MODELS[extracted.models[i]])
      ELSE StringValue(extracted.models[i])

\* C26: a project whose generate request was answered with an error is
\* discarded: a listing made after that answer holds no summary of it, and a
\* read of it made after that answer is answered 404.
FailedProjectDiscarded ==
  [][\A g, r \in Slots :
       (/\ req[g].op = "generate" /\ req[g].has
        /\ req[g].pc = "done" /\ req[g].status >= 400
        /\ acts(r) /\ req'[r].pc = "done") =>
         /\ (req[r].op = "list" /\ req[r].pc = "scan") =>
              \A i \in 1..Len(req'[r].out.json.projects) :
                req'[r].out.json.projects[i].id # req[g].id
         /\ (req[r].op = "get" /\ req[r].id = req[g].id) => req'[r].status = 404]_vars

(***************************************************************************)
(* The materialization on its own: any fileTree of up to MaxEntries        *)
(* entries, in any order of its keys.                                      *)
(***************************************************************************)
MaxEntries == 3

\* The entries a descriptor may hold; "src" as a file stands in the way of
\* the entries below src.
EntryPool ==
  { DirEntry(<<"src", "">>), DirEntry(<<"src", "lib", "">>),
    FileEntry(<<"src", "app.js">>, <<"x">>), FileEntry(<<"src", "lib", "util.js">>, <<"y">>),
    BareFileEntry(<<"empty.js">>), FileEntry(<<"src">>, <<"z">>) }

\* The fileTrees: no key twice.
FileTrees ==
  {t \in SeqsUpTo(EntryPool, MaxEntries) :
     t # <<>> /\ \A i, j \in 1..Len(t) : i # j => t[i].path # t[j].path}

\* The identifier uuidv4() gives the project.
NewId == Uuid(1)

NoTree == [state |-> "tree", ok |-> FALSE, tree |-> <<>>]

MaterializeInit ==
  /\ fs = EmptyStore
  /\ issued = {}
  /\ req = [r \in Slots |-> Idle]
  /\ now = 0
  /\ uuids = 1
  /\ started = 0
  /\ content \in FileTrees
  /\ extracted = NoTree
  /\ deleted = {}
  /\ alive = TRUE

\* await FileSystemManager.createProjectFiles(projectId, projectData.fileTree)
materialize ==
  /\ content # <<>>
  /\ fs' = createProjectFiles(fs, NewId, content).fs
  /\ extracted' = [state |-> "tree", ok |-> createProjectFiles(fs, NewId, content).ok,
                   tree |-> content]
  /\ content' = <<>>
  /\ UNCHANGED <<req, now, uuids, issued, started, deleted, alive>>

MaterializeNext == materialize

MaterializeSpec == MaterializeInit /\ [][MaterializeNext]_vars

\* The path an entry stands for, below the project root.
entryPath(e) == normalizeFrom(<<>>, e.path)

\* A fileTree that describes one tree of files: its keys stay below the
\* project root, a file's key names a file (no empty segment), no two keys
\* stand for the same path, and no file's path is the directory of another
\* entry.
consistent(tree) ==
  /\ wellFormed(tree)
  /\ \A i \in 1..Len(tree) :
       /\ entryPath(tree[i]) # <<>>
       /\ tree[i].type = "file" => \A k \in 1..Len(tree[i].path) : tree[i].path[k] # ""
       /\ \A j \in 1..Len(tree) : i # j =>
            /\ entryPath(tree[i]) # entryPath(tree[j])
            /\ tree[i].type = "file" => ~IsPrefix(entryPath(tree[i]), entryPath(tree[j]))

\* The entries of a tree in another order.
reordered(tree, o) == [i \in 1..Len(tree) |-> tree[o[i]]]

\* C27: the materialization of a consistent fileTree succeeds, and in every
\* other order of its entries it succeeds as well and leaves the same
\* directories and files; every file entry is then a file with the entry's
\* content (the empty string when it has none) below directories that exist.
OrderNotSignificant ==
  [][(content # <<>> /\ consistent(content)) =>
       /\ extracted'.ok
       /\ \A o \in Orders(1..Len(content)) :
            /\ createProjectFiles(fs, NewId, reordered(content, o)).ok
            /\ createProjectFiles(fs, NewId, reordered(content, o)).fs = fs'
       /\ \A i \in 1..Len(content) :
            LET full == pathJoin(PROJECTS_DIR, <<NewId>> \o content[i].path)
            IN IF content[i].type = "file"
                 THEN /\ fs'[full] = TextFile(IF content[i].hasContent THEN content[i].content
                                              ELSE <<"">>)
                      /\ \A d \in Prefixes(pathDirname(full)) : IsDir(fs', d)
               ELSE IsDir(fs', full)]_vars

\* C27, the case: a tree whose file comes before the entry of its directory,
\* and another file whose directories have no entry, was materialized.
FileBeforeItsDirectory ==
  /\ extracted.state = "tree" /\ extracted.ok
  /\ extracted.tree = <<FileEntry(<<"src", "app.js">>, <<"x">>), DirEntry(<<"src", "">>),
                        FileEntry(<<"src", "lib", "util.js">>, <<"y">>)>>
  /\ fs[pathJoin(PROJECTS_DIR, <<NewId, "src", "lib", "util.js">>)] = TextFile(<<"y">>)
  /\ IsDir(fs, pathJoin(PROJECTS_DIR, <<NewId, "src", "lib">>))

\* C28: an enhance or rewrite call that is not answered with success has left
\* the store as it was.  The read and the provider step write nothing; a call
\* whose file is absent is answered 404 without a call of the provider; and a
\* call is never ended without success once its backup is written.
FailedEditLeavesProject ==
  [][\A r \in Slots : (acts(r) /\ req[r].op \in {"enhance", "rewrite"}
                         /\ req'[r].op = req[r].op /\ req[r].pc # "done") =>
       /\ req[r].pc \in {"read", "provider"} => fs' = fs
       /\ (req[r].pc = "read" /\ ~IsFile(fs, fullPathOf(r))) =>
            /\ req'[r].pc = "done" /\ req'[r].status = 404 /\ req'[r].calls = 0
       /\ (req'[r].pc = "done" /\ req'[r].status # 200) =>
            /\ fs' = fs
            /\ req[r].pc # "replace"
            /\ req[r].pc = "provider" => req[r].bak = <<>>]_vars

\* C28, the case: an enhance call whose provider call failed was answered
\* without success; the file holds what the call read and has no backup.
EditFailedNothingWritten ==
  \E r \in Slots :
    /\ req[r].op = "enhance" /\ req[r].pc = "done" /\ req[r].failed
    /\ req[r].status # 200 /\ req[r].calls = 1
    /\ IsFile(fs, fullPathOf(r)) /\ fs[fullPathOf(r)] = req[r].cur
    /\ withSuffix(fullPathOf(r), ".backup") \notin DOMAIN fs

\* C29: a download of an existing project delivers the complete archive of
\* the project, whatever other downloads are doing: while a request is
\* building or sending its archive no other request creates, rewrites or
\* removes that file, and what a request sends is the archive of the project's
\* files.
ArchiveNotShared ==
  [][\A r \in Slots :
       (req[r].op = "download" /\ req[r].pc \in {"archive", "send"}) =>
         /\ \A q \in Slots \ {r} : acts(q) =>
              /\ Exists(fs, zipPathOf(r)) = Exists(fs', zipPathOf(r))
              /\ Exists(fs, zipPathOf(r)) => fs'[zipPathOf(r)] = fs[zipPathOf(r)]
         /\ (acts(r) /\ req[r].pc = "send" /\ req'[r].sent /\ IsDir(fs, projectPathOf(r))) =>
              req'[r].out = ZipFile(projectFiles(fs, projectPathOf(r)))]_vars

====
